---- MODULE Spec2Model ----
(***************************************************************************)
(* Verification model of the ViewStage geometry engine                     *)
(* (src/wasm-viewstage/src/lib.rs).                                        *)
(*                                                                         *)
(* Numbers.  The engine computes in f32.  The model computes in exact      *)
(* fixed-point arithmetic: a coordinate is an integer count of grid units, *)
(* one grid unit being 0.0005, so that the duplicate tolerance 0.001 of    *)
(* the simplifier is DedupTol = 2 units and two coordinates can differ by  *)
(* less than the tolerance without being equal.  Distances are kept as     *)
(* squared distances (sqrt is monotone on non-negative numbers, so every   *)
(* comparison of the source is a comparison of squares), and a squared     *)
(* distance that the source obtains through a division is kept as a        *)
(* fraction [num, den] with den > 0.                                       *)
(***************************************************************************)
EXTENDS Integers, Sequences, FiniteSets, TLC

VARIABLES
    \* ---- simplify_points: one request and its response
    points,        \* the request's point sequence
    epsilon,       \* the request's epsilon, in grid units
    simplified,    \* the response of simplify_points (a point sequence)
    kept,          \* the 0-based input indices of the points of `simplified`
    resimplified,  \* the response of simplify_points applied to `simplified`
    sphase,        \* "idle" | "input" | "once" | "twice"
    \* ---- quantize_coord: one call and its result
    coord,         \* the coordinate passed
    qstep,         \* the step passed
    quantized,     \* the value returned
    qphase,        \* "idle" | "input" | "done"
    \* ---- collect_points: the ThrottleCursor the host carries between calls
    lastTime,
    lastX,
    lastY,
    samples,       \* the points of the request when one call is examined
    collected,     \* collected_points of the latest response
    cstatus,       \* "idle" | "ready" | "ok" | "panic": outcome of the latest call
    overflowChecks,\* whether the build traps on integer overflow
    startTime,     \* lastTime of the initial cursor
    clock,         \* currentTime of the latest call (startTime before the first)
    monotone,      \* no call so far passed a currentTime below the one before it
    commitLog,     \* the currentTime of every call that committed a sample
    \* ---- calculate_stroke_bounds: one request and its response
    stroke,        \* the request's stroke
    bounds,        \* the Bounds returned
    bphase,        \* "idle" | "input" | "done"
    \* ---- cull_strokes_by_viewport: one request and its response
    viewport,      \* the request's viewport
    strokes,       \* the request's stroke list
    visible,       \* the visible_strokes returned
    vphase,        \* "idle" | "input" | "done"
    \* ---- complex_collision_detection: one request and its result
    shapes,        \* the request: unparseable, or two tagged payloads
    collides,      \* the bool returned
    xphase,        \* "idle" | "input" | "done"
    \* ---- detect_eraser_collision: one request and its response
    eraserRequest, \* the EraserCollisionRequest
    hits,          \* the EraserCollisionResponse
    ephase,        \* "idle" | "input" | "done"
    \* ---- batch_process_draw_commands: one request and its response
    batchRequest,  \* the BatchProcessDrawCommandsRequest
    optimized,     \* the optimized_commands returned
    dphase,        \* "idle" | "input" | "done"
    \* ---- compact_strokes: one request, stroke by stroke
    compactRequest,\* the CompactStrokesRequest
    canvas,        \* the RgbaImage: pixel <<x, y>> |-> <<r, g, b, a>>
    previous,      \* the canvas before the stroke applied last
    writes,        \* the coordinates written while applying that stroke
    applied,       \* how many strokes of the request the loop has passed
    kphase,        \* "idle" | "strokes" | "encoded"
    \* ---- smooth_path: one request and its response
    smoothRequest, \* the PathSmoothRequest
    smoothed,      \* the smoothed_points returned
    mphase,        \* "idle" | "input" | "done"
    \* ---- simplify_points_iterative, one iteration of its loop at a time
    \* ---- (on `points` and `epsilon`)
    workStack,     \* the stack of (start, end) ranges, top last
    emitted,       \* the indices of the points pushed to result so far
    wphase,        \* "idle" | "loop" | "done"
    \* ---- the digital-line loop of draw_line_on_canvas / erase_line_on_canvas
    lineEnds,      \* the arguments <<x1, y1, x2, y2>>
    walked,        \* the pixels (x, y) at which the loop stamped, in order
    lphase         \* "idle" | "input" | "done"

simplifyVars == <<points, epsilon, simplified, kept, resimplified, sphase>>
quantizeVars == <<coord, qstep, quantized, qphase>>
collectVars == <<lastTime, lastX, lastY, samples, collected, cstatus, overflowChecks,
                 startTime, clock, monotone, commitLog>>
boundsVars == <<stroke, bounds, bphase>>
cullVars == <<viewport, strokes, visible, vphase>>
collisionVars == <<shapes, collides, xphase>>
eraserVars == <<eraserRequest, hits, ephase>>
batchVars == <<batchRequest, optimized, dphase>>
compactVars == <<compactRequest, canvas, previous, writes, applied, kphase>>
smoothVars == <<smoothRequest, smoothed, mphase>>
stackVars == <<workStack, emitted, wphase>>
lineVars == <<lineEnds, walked, lphase>>
vars == <<simplifyVars, quantizeVars, collectVars, boundsVars, cullVars,
         collisionVars,
         eraserVars,
         batchVars,
         compactVars,
         smoothVars,
         stackVars,
         lineVars>>

----------------------------------------------------------------------------
(* Bounds of the explored inputs *)
MaxLen   == 4      \* longest point sequence given to the simplifier
MaxX     == 2      \* from-corner x ranges over 0..MaxX
MaxEps   == 1      \* epsilon ranges over 0..MaxEps grid units

MaxCoord == 30     \* quantize_coord is called on -MaxCoord..MaxCoord
MaxStep  == 6      \* quantize_coord is called with a step in 1..MaxStep
MaxTime  == 61     \* largest clock reading
MaxCommits == 2    \* calls are explored until this many samples are committed
MaxSamples == 2    \* most raw samples in one collect_points request
MaxB     == 0      \* bounds: coordinates range over -1..MaxB
MaxBoundsLen == 2  \* bounds: longest stroke
MaxG     == 4      \* cull: single-segment strokes have coordinates in 0..MaxG
MaxV     == 2      \* cull: viewport x, y in 0..MaxV, width, height in 1..MaxV
MaxStrokes == 2    \* cull: longest stroke list
MaxStrokeLen == 2  \* cull: longest stroke in a list
MaxC     == 2      \* collision: shape coordinates range over 0..MaxC
MaxR     == 1      \* collision: radii range over -1..MaxR
MaxTol   == 1      \* eraser: tolerance ranges over -1..MaxTol grid units
MaxTargets == 2    \* eraser: longest list of target strokes
MaxCommands == 3   \* batch: longest command list
MaxMinDist == 2    \* batch: min_distance ranges over 0..MaxMinDist
MaxCanvasW == 4    \* compositor: canvas_width
MaxCanvasH == 3    \* compositor: canvas_height
MaxWidth == 3      \* compositor: line widths of single segments, 1..MaxWidth
MaxLayers == 2     \* compositor: longest stroke list
MaxShared == 3     \* longest stroke list handed to all stroke operations
MaxPath == 4       \* smooth_path: longest point sequence
MaxSmooth == 4     \* smooth_path: largest smoothness, in tenths
MaxRun == 4        \* simplifier loop: longest point sequence
MaxEmit == 8       \* simplifier loop: indices emitted before the run is cut off
MaxWalk == 3       \* line loop: endpoints have coordinates in -MaxWalk..MaxWalk

(* Program constants *)
MinInterval     == 30    \* minimum elapsed time between commits
EagerThreshold  == 1500  \* buffer length above which collect_points simplifies
\* u64 arithmetic is modulo 2^64.  TLC's integers are 32 bits wide, so the
\* model wraps modulo 2^30; every clock value explored is far below
\* TimeModulus - MinInterval, where `now - last_time < 30` has the same
\* outcome under either modulus.
TimeModulus     == 1073741824
\* f32::MAX and f32::MIN, the initial values of the bounds fold: stand-ins
\* that lie beyond every coordinate explored
F32_MAX         == 1000000
F32_MIN         == -F32_MAX
DedupTol        == 2     \* 0.001 in grid units
StrideThreshold == 100   \* a range longer than this is scanned with a stride
StrideDivisor   == 100   \* stride = range length / 100

----------------------------------------------------------------------------
(* Arithmetic helpers *)
Abs(x) == IF x < 0 THEN -x ELSE x
Max2(a, b) == IF a >= b THEN a ELSE b
Min2(a, b) == IF a <= b THEN a ELSE b

\* fractions num/den with den > 0
Frac(n, d) == [num |-> n, den |-> d]
FracGT(p, q) == p.num * q.den > q.num * p.den
FracLE(p, q) == ~FracGT(p, q)

\* the i-th element of a Vec, 0-based as in the source
At(v, i) == v[i + 1]

\* struct StrokePoint
StrokePoint(fx, fy, tx, ty) == [from_x |-> fx, from_y |-> fy, to_x |-> tx, to_y |-> ty]

----------------------------------------------------------------------------
(* Geometry primitives *)

\* distance(x1,y1,x2,y2), squared
distanceSq(x1, y1, x2, y2) ==
    LET dx == x2 - x1
        dy == y2 - y1
    IN  dx * dx + dy * dy

\* perpendicular_distance(px,py,x1,y1,x2,y2), squared, as a fraction.
\* param = dot / len_sq when len_sq # 0 and -1 otherwise, so
\*   param < 0  iff  len_sq = 0 or dot < 0,   param > 1  iff  dot > len_sq;
\* otherwise the foot is (x1 + param*c, y1 + param*d) and the squared
\* distance is ((a*len_sq - dot*c)^2 + (b*len_sq - dot*d)^2) / len_sq^2.
perpendicular_distance(px, py, x1, y1, x2, y2) ==
    LET a == px - x1
        b == py - y1
        c == x2 - x1
        d == y2 - y1
        dot == a * c + b * d
        len_sq == c * c + d * d
    IN  IF len_sq = 0 \/ dot < 0
        THEN Frac(distanceSq(px, py, x1, y1), 1)
        ELSE IF dot > len_sq
        THEN Frac(distanceSq(px, py, x2, y2), 1)
        ELSE Frac((a * len_sq - dot * c) * (a * len_sq - dot * c)
                  + (b * len_sq - dot * d) * (b * len_sq - dot * d),
                  len_sq * len_sq)

----------------------------------------------------------------------------
(* Path simplifier: simplify_points_iterative *)

\* Deviation measured at the to-corner of point i
Deviation_toCorner(pts, start, end, i) ==
    perpendicular_distance(At(pts, i).to_x, At(pts, i).to_y,
                           At(pts, start).from_x, At(pts, start).from_y,
                           At(pts, end).to_x, At(pts, end).to_y)

\* deviation of point i from the chord of the range (start, end): the
\* from-corner of point i against the segment from the from-corner of
\* point start to the to-corner of point end
Deviation(pts, start, end, i) ==
    perpendicular_distance(At(pts, i).from_x, At(pts, i).from_y,
                           At(pts, start).from_x, At(pts, start).from_y,
                           At(pts, end).to_x, At(pts, end).to_y)

\* `if dist > max_dist { max_dist = dist; max_index = i; }` on m = [dist, index]
KeepMax(m, dist, i) ==
    IF FracGT(dist, m.dist) THEN [dist |-> dist, index |-> i] ELSE m

\* one scanning loop: visits i, i+step, ... while i <= last, keeping the
\* first index of strictly largest deviation
RECURSIVE ScanRange(_, _, _, _, _, _, _)
ScanRange(pts, start, end, i, last, step, m) ==
    IF i > last \/ i >= Len(pts)
    THEN m
    ELSE ScanRange(pts, start, end, i + step, last, step,
                   KeepMax(m, Deviation(pts, start, end, i), i))

\* the stride of the coarse scan of the range (start, end)
ScanStep(start, end) ==
    Max2(IF end - start > StrideThreshold THEN (end - start) \div StrideDivisor ELSE 1, 1)

\* the fine scan, one index at a time, around the maximum of the coarse scan
FineScan(pts, start, end, step, coarse) ==
    LET fine_start == Max2(Max2(coarse.index - step, 0), start + 1)
        fine_end == Min2(coarse.index + step, end - 1)
    IN  IF fine_start <= fine_end
        THEN ScanRange(pts, start, end, fine_start, fine_end, 1, coarse)
        ELSE coarse

\* the coarse scan followed by the fine scan: [dist, index] of the range
MaxDeviation(pts, start, end) ==
    FineScan(pts, start, end, ScanStep(start, end),
             ScanRange(pts, start, end, start + 1, end - 1, ScanStep(start, end),
                       [dist |-> Frac(0, 1), index |-> start]))

\* max_dist > epsilon, on the squared distance; a distance is never negative,
\* so it exceeds every negative epsilon
ExceedsEpsilon(dist, eps) == eps < 0 \/ FracGT(dist, Frac(eps * eps, 1))

\* SplitOrEmit with the two sub-ranges pushed left first, so that the right
\* one is popped first
SplitOrEmit_rightFirst(eps, rest, result, start, end, m) ==
    IF ExceedsEpsilon(m.dist, eps)
    THEN [stack |-> rest \o << <<start, m.index>>, <<m.index, end>> >>,
          result |-> result]
    ELSE [stack |-> rest, result |-> result \o <<start, end>>]

\* SplitOrEmit with the right sub-range starting one past the split index
SplitOrEmit_gap(eps, rest, result, start, end, m) ==
    IF ExceedsEpsilon(m.dist, eps)
    THEN [stack |-> rest \o << <<m.index + 1, end>>, <<start, m.index>> >>,
          result |-> result]
    ELSE [stack |-> rest, result |-> result \o <<start, end>>]

\* `if max_dist > epsilon { push (max_index, end); push (start, max_index) }
\*  else { emit start; emit end }`
SplitOrEmit(eps, rest, result, start, end, m) ==
    IF ExceedsEpsilon(m.dist, eps)
    THEN [stack |-> rest \o << <<m.index, end>>, <<start, m.index>> >>,
          result |-> result]
    ELSE [stack |-> rest, result |-> result \o <<start, end>>]

\* the popped range (start, end) processed against the rest of the stack
ProcessPopped(pts, eps, rest, result, start, end) ==
    IF start >= end \/ start >= Len(pts) \/ end >= Len(pts)
    THEN [stack |-> rest,
          result |-> IF start < Len(pts) THEN Append(result, start) ELSE result]
    ELSE SplitOrEmit(eps, rest, result, start, end, MaxDeviation(pts, start, end))

\* one iteration of `while let Some((start, end)) = stack.pop()`.
\* The stack is a sequence whose last element is the top; result holds the
\* indices of the points pushed (points[i].clone() is represented by i).
ProcessRange(pts, eps, stack, result) ==
    ProcessPopped(pts, eps, SubSeq(stack, 1, Len(stack) - 1), result,
                  stack[Len(stack)][1], stack[Len(stack)][2])

\* the loop, run until the stack is empty; s = [stack, result]
RECURSIVE RunStack(_, _, _)
RunStack(pts, eps, s) ==
    IF s.stack = <<>>
    THEN s.result
    ELSE RunStack(pts, eps, ProcessRange(pts, eps, s.stack, s.result))

\* the duplicate test of the post-pass: all four coordinates within 0.001
NearDuplicate(p, q) ==
    /\ Abs(p.from_x - q.from_x) < DedupTol
    /\ Abs(p.from_y - q.from_y) < DedupTol
    /\ Abs(p.to_x - q.to_x) < DedupTol
    /\ Abs(p.to_y - q.to_y) < DedupTol

\* the post-pass: keep a point unless it duplicates the last kept point
RECURSIVE UniqueResult(_, _, _, _)
UniqueResult(pts, result, k, unique) ==
    IF k > Len(result)
    THEN unique
    ELSE LET i == result[k]
         IN  IF unique = <<>> \/ ~NearDuplicate(At(pts, i), At(pts, unique[Len(unique)]))
             THEN UniqueResult(pts, result, k + 1, Append(unique, i))
             ELSE UniqueResult(pts, result, k + 1, unique)

\* the indices of the input points that simplify_points_iterative returns
SimplifyIndices(pts, eps) ==
    LET n == Len(pts)
    IN  IF n = 0 THEN <<>>
        ELSE IF n <= 2 THEN [i \in 1..n |-> i - 1]
        ELSE UniqueResult(pts,
                          RunStack(pts, eps, [stack |-> << <<0, n - 1>> >>, result |-> <<>>]),
                          1, <<>>)

simplify_points_iterative(pts, eps) ==
    LET idx == SimplifyIndices(pts, eps)
    IN  [k \in 1..Len(idx) |-> At(pts, idx[k])]

----------------------------------------------------------------------------
(* Point capture / throttle: collect_points *)

\* f32::round of the quotient n/d (d > 0): nearest integer, ties away from zero
RoundHalfAway(n, d) ==
    IF n >= 0 THEN (2 * n + d) \div (2 * d)
    ELSE -((2 * (-n) + d) \div (2 * d))

\* rounding that takes a tie to the next integer up
RoundHalfUp(n, d) == (2 * n + d) \div (2 * d)

\* quantize_coord with ties rounded up instead of away from zero
quantize_coord_halfUp(c, step) == RoundHalfUp(c, step) * step

\* quantize_coord(coord, step) = (coord / step).round() * step
quantize_coord(c, step) == RoundHalfAway(c, step) * step

\* now - last_time on u64 in a build without overflow checks
WrappingSub(a, b) == (a - b) % TimeModulus

\* the throttle test with the interval off by one
TooSoon_short(now, last_time) == WrappingSub(now, last_time) < MinInterval - 1

\* `now - last_time < 30`
TooSoon(now, last_time) == WrappingSub(now, last_time) < MinInterval

\* the eager simplification of the buffer after a push
EagerSimplify(buffer, eps) ==
    IF Len(buffer) > EagerThreshold
    THEN simplify_points_iterative(buffer, eps)
    ELSE buffer

\* the loop body with the cursor moved to the sample's from-corner
CollectSample_fromCorner(q_from_x, q_from_y, q_to_x, q_to_y, config, now, checked, st) ==
    IF distanceSq(q_from_x, q_from_y, q_to_x, q_to_y)
           < config.min_distance * config.min_distance
    THEN st
    ELSE IF checked /\ now < st.last_time
    THEN [st EXCEPT !.panicked = TRUE]
    ELSE IF TooSoon(now, st.last_time)
    THEN st
    ELSE [collected |-> EagerSimplify(
                            Append(st.collected,
                                   StrokePoint(q_from_x, q_from_y, q_to_x, q_to_y)),
                            config.epsilon),
          last_time |-> now,
          last_x |-> q_from_x,
          last_y |-> q_from_y,
          panicked |-> FALSE]

\* the loop body with last_time left at the value passed in
CollectSample_staleTime(q_from_x, q_from_y, q_to_x, q_to_y, config, now, checked, st) ==
    IF distanceSq(q_from_x, q_from_y, q_to_x, q_to_y)
           < config.min_distance * config.min_distance
    THEN st
    ELSE IF checked /\ now < st.last_time
    THEN [st EXCEPT !.panicked = TRUE]
    ELSE IF TooSoon(now, st.last_time)
    THEN st
    ELSE [collected |-> EagerSimplify(
                            Append(st.collected,
                                   StrokePoint(q_from_x, q_from_y, q_to_x, q_to_y)),
                            config.epsilon),
          last_time |-> st.last_time,
          last_x |-> q_to_x,
          last_y |-> q_to_y,
          panicked |-> FALSE]

\* the body of `for point in request.points` for one sample whose quantized
\* corners are given.  st = [collected, last_time, last_x, last_y, panicked];
\* a build with overflow checks panics at `now - last_time` when
\* now < last_time.
CollectSample(q_from_x, q_from_y, q_to_x, q_to_y, config, now, checked, st) ==
    IF distanceSq(q_from_x, q_from_y, q_to_x, q_to_y)
           < config.min_distance * config.min_distance
    THEN st
    ELSE IF checked /\ now < st.last_time
    THEN [st EXCEPT !.panicked = TRUE]
    ELSE IF TooSoon(now, st.last_time)
    THEN st
    ELSE [collected |-> EagerSimplify(
                            Append(st.collected,
                                   StrokePoint(q_from_x, q_from_y, q_to_x, q_to_y)),
                            config.epsilon),
          last_time |-> now,
          last_x |-> q_to_x,
          last_y |-> q_to_y,
          panicked |-> FALSE]

\* `for point in request.points`, from sample k on
RECURSIVE CollectLoop(_, _, _, _, _, _)
CollectLoop(pts, k, config, now, checked, st) ==
    IF k > Len(pts) \/ st.panicked
    THEN st
    ELSE CollectLoop(pts, k + 1, config, now, checked,
             CollectSample(quantize_coord(pts[k].from_x, config.quantization),
                           quantize_coord(pts[k].from_y, config.quantization),
                           quantize_coord(pts[k].to_x, config.quantization),
                           quantize_coord(pts[k].to_y, config.quantization),
                           config, now, checked, st))

\* collect_points on a parsed CollectPointsRequest
collect_points(request, checked) ==
    CollectLoop(request.points, 1, request.config, request.current_time, checked,
                [collected |-> <<>>, last_time |-> request.last_time,
                 last_x |-> request.last_x, last_y |-> request.last_y,
                 panicked |-> FALSE])

----------------------------------------------------------------------------
(* Spatial query: bounds and viewport culling *)

\* struct Stroke (the fields the spatial queries read)
Stroke(type, pts) == [type |-> type, points |-> pts]

\* struct Bounds
Bounds(min_x, min_y, max_x, max_y) ==
    [min_x |-> min_x, min_y |-> min_y, max_x |-> max_x, max_y |-> max_y]

\* the fold of calculate_stroke_bounds over from-corners only
RECURSIVE BoundsLoop_fromOnly(_, _, _)
BoundsLoop_fromOnly(pts, k, b) ==
    IF k > Len(pts)
    THEN b
    ELSE LET point == pts[k]
         IN  BoundsLoop_fromOnly(pts, k + 1,
                 Bounds(Min2(b.min_x, point.from_x),
                        Min2(b.min_y, point.from_y),
                        Max2(b.max_x, point.from_x),
                        Max2(b.max_y, point.from_y)))

\* `for point in &stroke.points` of calculate_stroke_bounds, from point k on
RECURSIVE BoundsLoop(_, _, _)
BoundsLoop(pts, k, b) ==
    IF k > Len(pts)
    THEN b
    ELSE LET point == pts[k]
         IN  BoundsLoop(pts, k + 1,
                 Bounds(Min2(Min2(b.min_x, point.from_x), point.to_x),
                        Min2(Min2(b.min_y, point.from_y), point.to_y),
                        Max2(Max2(b.max_x, point.from_x), point.to_x),
                        Max2(Max2(b.max_y, point.from_y), point.to_y)))

\* calculate_stroke_bounds without the early return for an empty stroke
calculate_stroke_bounds_noEmptyCheck(st) ==
    BoundsLoop(st.points, 1, Bounds(F32_MAX, F32_MAX, F32_MIN, F32_MIN))

\* calculate_stroke_bounds on a parsed Stroke
calculate_stroke_bounds(st) ==
    IF st.points = <<>>
    THEN Bounds(0, 0, 0, 0)
    ELSE BoundsLoop(st.points, 1, Bounds(F32_MAX, F32_MAX, F32_MIN, F32_MIN))

\* the four axis rejection tests of line_rect_intersect
AxisRejected(x1, y1, x2, y2, rect_left, rect_top, rect_right, rect_bottom) ==
    \/ (x1 < rect_left /\ x2 < rect_left)
    \/ (x1 > rect_right /\ x2 > rect_right)
    \/ (y1 < rect_top /\ y2 < rect_top)
    \/ (y1 > rect_bottom /\ y2 > rect_bottom)

\* line_rect_intersect without the cross-product test
line_rect_intersect_axisOnly(x1, y1, x2, y2, rect_left, rect_top, rect_right, rect_bottom) ==
    ~AxisRejected(x1, y1, x2, y2, rect_left, rect_top, rect_right, rect_bottom)

\* line_rect_intersect
line_rect_intersect(x1, y1, x2, y2, rect_left, rect_top, rect_right, rect_bottom) ==
    IF AxisRejected(x1, y1, x2, y2, rect_left, rect_top, rect_right, rect_bottom)
    THEN FALSE
    ELSE LET d1 == (rect_left - x1) * (y2 - y1) - (rect_top - y1) * (x2 - x1)
             d2 == (rect_right - x1) * (y2 - y1) - (rect_top - y1) * (x2 - x1)
             d3 == (rect_left - x1) * (y2 - y1) - (rect_bottom - y1) * (x2 - x1)
             d4 == (rect_right - x1) * (y2 - y1) - (rect_bottom - y1) * (x2 - x1)
         IN  ~((d1 * d2) > 0 /\ (d3 * d4) > 0)

\* `for point in &stroke.points` of cull_strokes_by_viewport, from point k
\* on: TRUE as soon as one segment passes line_rect_intersect
RECURSIVE IsVisible(_, _, _)
IsVisible(pts, k, vp) ==
    IF k > Len(pts)
    THEN FALSE
    ELSE IF line_rect_intersect(pts[k].from_x, pts[k].from_y, pts[k].to_x, pts[k].to_y,
                                vp.x, vp.y, vp.x + vp.width, vp.y + vp.height)
    THEN TRUE
    ELSE IsVisible(pts, k + 1, vp)

\* `for stroke in request.strokes` of cull_strokes_by_viewport, from stroke k on
RECURSIVE CullLoop(_, _, _, _)
CullLoop(sts, k, vp, visible_strokes) ==
    IF k > Len(sts)
    THEN visible_strokes
    ELSE IF sts[k].points = <<>>
    THEN CullLoop(sts, k + 1, vp, visible_strokes)
    ELSE IF IsVisible(sts[k].points, 1, vp)
    THEN CullLoop(sts, k + 1, vp, Append(visible_strokes, sts[k]))
    ELSE CullLoop(sts, k + 1, vp, visible_strokes)

\* cull_strokes_by_viewport on a parsed ViewportCullRequest
cull_strokes_by_viewport(sts, vp) == CullLoop(sts, 1, vp, <<>>)

----------------------------------------------------------------------------
(* Shape collision: complex_collision_detection *)

\* serde_json::Value, as far as the collision dispatch reads it
Null == [kind |-> "null"]
StringValue == [kind |-> "string"]
Number(n) == [kind |-> "number", num |-> n]
Object(f) == [kind |-> "object", fields |-> f]

\* value[key].as_f64().unwrap_or(0.0) as f32: indexing anything but an object
\* that has the key yields null, and anything but a number reads as 0
as_f32_or_zero(value, key) ==
    IF value.kind = "object" /\ key \in DOMAIN value.fields
       /\ value.fields[key].kind = "number"
    THEN value.fields[key].num
    ELSE 0

\* struct ComplexCollisionRequest; a request that serde rejects carries
\* nothing but the fact
ComplexCollisionRequest(t1, d1, t2, d2) ==
    [parsed |-> TRUE, shape1_type |-> t1, shape1_data |-> d1,
     shape2_type |-> t2, shape2_data |-> d2]
UnparsedRequest == [parsed |-> FALSE]

\* ("rect", "rect"): axis-aligned overlap
RectRect(rect1, rect2) ==
    LET rect1_x == as_f32_or_zero(rect1, "x")
        rect1_y == as_f32_or_zero(rect1, "y")
        rect1_w == as_f32_or_zero(rect1, "width")
        rect1_h == as_f32_or_zero(rect1, "height")
        rect2_x == as_f32_or_zero(rect2, "x")
        rect2_y == as_f32_or_zero(rect2, "y")
        rect2_w == as_f32_or_zero(rect2, "width")
        rect2_h == as_f32_or_zero(rect2, "height")
    IN  ~(\/ rect1_x + rect1_w < rect2_x
          \/ rect2_x + rect2_w < rect1_x
          \/ rect1_y + rect1_h < rect2_y
          \/ rect2_y + rect2_h < rect1_y)

\* ("rect", "circle") | ("circle", "rect"): closest point of the rectangle
\* to the centre, by clamping
RectCircle(rect_data, circle_data) ==
    LET rect_x == as_f32_or_zero(rect_data, "x")
        rect_y == as_f32_or_zero(rect_data, "y")
        rect_w == as_f32_or_zero(rect_data, "width")
        rect_h == as_f32_or_zero(rect_data, "height")
        circle_x == as_f32_or_zero(circle_data, "x")
        circle_y == as_f32_or_zero(circle_data, "y")
        circle_radius == as_f32_or_zero(circle_data, "radius")
        closest_x == Min2(Max2(circle_x, rect_x), rect_x + rect_w)
        closest_y == Min2(Max2(circle_y, rect_y), rect_y + rect_h)
        dx == circle_x - closest_x
        dy == circle_y - closest_y
        distance_sq == dx * dx + dy * dy
    IN  distance_sq <= circle_radius * circle_radius

\* the circle-circle comparison taken strictly
CircleCircle_strict(circle1, circle2) ==
    LET dx == as_f32_or_zero(circle1, "x") - as_f32_or_zero(circle2, "x")
        dy == as_f32_or_zero(circle1, "y") - as_f32_or_zero(circle2, "y")
        distance_sq == dx * dx + dy * dy
        radius_sum == as_f32_or_zero(circle1, "radius") + as_f32_or_zero(circle2, "radius")
    IN  distance_sq < radius_sum * radius_sum

\* ("circle", "circle"): squared centre distance against squared radius sum
CircleCircle(circle1, circle2) ==
    LET dx == as_f32_or_zero(circle1, "x") - as_f32_or_zero(circle2, "x")
        dy == as_f32_or_zero(circle1, "y") - as_f32_or_zero(circle2, "y")
        distance_sq == dx * dx + dy * dy
        radius_sum == as_f32_or_zero(circle1, "radius") + as_f32_or_zero(circle2, "radius")
    IN  distance_sq <= radius_sum * radius_sum

\* line_segments_intersect: bounding-box rejection, then the straddle test
line_segments_intersect(x1, y1, x2, y2, x3, y3, x4, y4) ==
    IF \/ Max2(x1, x2) < Min2(x3, x4) \/ Max2(x3, x4) < Min2(x1, x2)
       \/ Max2(y1, y2) < Min2(y3, y4) \/ Max2(y3, y4) < Min2(y1, y2)
    THEN FALSE
    ELSE LET d1 == (x2 - x1) * (y3 - y1) - (y2 - y1) * (x3 - x1)
             d2 == (x2 - x1) * (y4 - y1) - (y2 - y1) * (x4 - x1)
             d3 == (x4 - x3) * (y1 - y3) - (y4 - y3) * (x1 - x3)
             d4 == (x4 - x3) * (y2 - y3) - (y4 - y3) * (x2 - x3)
         IN  (d1 * d2 <= 0) /\ (d3 * d4 <= 0)

\* ("line", "line")
LineLine(line1, line2) ==
    line_segments_intersect(
        as_f32_or_zero(line1, "x1"), as_f32_or_zero(line1, "y1"),
        as_f32_or_zero(line1, "x2"), as_f32_or_zero(line1, "y2"),
        as_f32_or_zero(line2, "x1"), as_f32_or_zero(line2, "y1"),
        as_f32_or_zero(line2, "x2"), as_f32_or_zero(line2, "y2"))

\* the dispatch with ("rect", "line") answered by the rectangle test
complex_collision_detection_rectLine(req) ==
    IF ~req.parsed THEN FALSE
    ELSE LET t1 == req.shape1_type
             t2 == req.shape2_type
         IN  IF t1 = "rect" /\ t2 \in {"rect", "line"}
             THEN RectRect(req.shape1_data, req.shape2_data)
             ELSE IF t1 = "rect" /\ t2 = "circle"
             THEN RectCircle(req.shape1_data, req.shape2_data)
             ELSE IF t1 = "circle" /\ t2 = "rect"
             THEN RectCircle(req.shape2_data, req.shape1_data)
             ELSE IF t1 = "circle" /\ t2 = "circle"
             THEN CircleCircle(req.shape1_data, req.shape2_data)
             ELSE IF t1 = "line" /\ t2 = "line"
             THEN LineLine(req.shape1_data, req.shape2_data)
             ELSE FALSE

\* complex_collision_detection: false for a request that does not parse,
\* otherwise the match on the pair of tags
complex_collision_detection(req) ==
    IF ~req.parsed THEN FALSE
    ELSE LET t1 == req.shape1_type
             t2 == req.shape2_type
         IN  IF t1 = "rect" /\ t2 = "rect"
             THEN RectRect(req.shape1_data, req.shape2_data)
             ELSE IF t1 = "rect" /\ t2 = "circle"
             THEN RectCircle(req.shape1_data, req.shape2_data)
             ELSE IF t1 = "circle" /\ t2 = "rect"
             THEN RectCircle(req.shape2_data, req.shape1_data)
             ELSE IF t1 = "circle" /\ t2 = "circle"
             THEN CircleCircle(req.shape1_data, req.shape2_data)
             ELSE IF t1 = "line" /\ t2 = "line"
             THEN LineLine(req.shape1_data, req.shape2_data)
             ELSE FALSE

----------------------------------------------------------------------------
(* Eraser hit test: detect_eraser_collision *)

\* a distance given by its square (a fraction) is <= tolerance
WithinTolerance(dSq, tolerance) ==
    tolerance >= 0 /\ FracLE(dSq, Frac(tolerance * tolerance, 1))

\* the test of one stroke segment against one eraser segment, without the
\* perpendicular-distance check
EraserHits_endpointsOnly(stroke_point, eraser_point, tolerance) ==
    LET dist_start == distanceSq(stroke_point.from_x, stroke_point.from_y,
                                 eraser_point.from_x, eraser_point.from_y)
        dist_end == distanceSq(stroke_point.to_x, stroke_point.to_y,
                               eraser_point.to_x, eraser_point.to_y)
    IN  \/ WithinTolerance(Frac(dist_start, 1), tolerance)
        \/ WithinTolerance(Frac(dist_end, 1), tolerance)

\* the test of one stroke segment against one eraser segment: either pair of
\* corresponding corners within tolerance, or the eraser's from-corner
\* within tolerance of the stroke segment
EraserHits(stroke_point, eraser_point, tolerance) ==
    LET dist_start == distanceSq(stroke_point.from_x, stroke_point.from_y,
                                 eraser_point.from_x, eraser_point.from_y)
        dist_end == distanceSq(stroke_point.to_x, stroke_point.to_y,
                               eraser_point.to_x, eraser_point.to_y)
        perp_dist == perpendicular_distance(
                         eraser_point.from_x, eraser_point.from_y,
                         stroke_point.from_x, stroke_point.from_y,
                         stroke_point.to_x, stroke_point.to_y)
    IN  \/ WithinTolerance(Frac(dist_start, 1), tolerance)
        \/ WithinTolerance(Frac(dist_end, 1), tolerance)
        \/ WithinTolerance(perp_dist, tolerance)

\* the inner loop over the eraser's segments, from the k-th on; it breaks at
\* the first hit
RECURSIVE EraserLoop(_, _, _, _)
EraserLoop(stroke_point, eraser_points, k, tolerance) ==
    IF k > Len(eraser_points) THEN FALSE
    ELSE IF EraserHits(stroke_point, eraser_points[k], tolerance) THEN TRUE
    ELSE EraserLoop(stroke_point, eraser_points, k + 1, tolerance)

\* the loop over the segments of one stroke, from the j-th on (1-based here,
\* 0-based point_idx in the response)
RECURSIVE StrokeHitPoints(_, _, _, _, _)
StrokeHitPoints(pts, j, eraser_points, tolerance, stroke_hit_points) ==
    IF j > Len(pts) THEN stroke_hit_points
    ELSE IF EraserLoop(pts[j], eraser_points, 1, tolerance)
    THEN StrokeHitPoints(pts, j + 1, eraser_points, tolerance,
                         Append(stroke_hit_points, j - 1))
    ELSE StrokeHitPoints(pts, j + 1, eraser_points, tolerance, stroke_hit_points)

\* struct EraserCollisionResponse
EraserCollisionResponse(stroke_indices, point_indices) ==
    [hit_stroke_indices |-> stroke_indices, hit_point_indices |-> point_indices]

\* the outer loop over the request's strokes, from the i-th on
RECURSIVE EraserStrokeLoop(_, _, _, _, _)
EraserStrokeLoop(sts, i, eraser_points, tolerance, resp) ==
    IF i > Len(sts) THEN resp
    ELSE IF sts[i].type = "erase"
    THEN EraserStrokeLoop(sts, i + 1, eraser_points, tolerance, resp)
    ELSE LET stroke_hit_points ==
                 StrokeHitPoints(sts[i].points, 1, eraser_points, tolerance, <<>>)
         IN  IF stroke_hit_points # <<>>
             THEN EraserStrokeLoop(sts, i + 1, eraser_points, tolerance,
                      EraserCollisionResponse(
                          Append(resp.hit_stroke_indices, i - 1),
                          Append(resp.hit_point_indices, stroke_hit_points)))
             ELSE EraserStrokeLoop(sts, i + 1, eraser_points, tolerance, resp)

\* struct EraserCollisionRequest
EraserCollisionRequest(sts, eraser_stroke, tolerance) ==
    [strokes |-> sts, eraser_stroke |-> eraser_stroke, tolerance |-> tolerance]

\* detect_eraser_collision on a parsed request
detect_eraser_collision(req) ==
    EraserStrokeLoop(req.strokes, 1, req.eraser_stroke.points, req.tolerance,
                     EraserCollisionResponse(<<>>, <<>>))

----------------------------------------------------------------------------
(* Draw-command batching: batch_process_draw_commands *)

\* struct DrawCommand
DrawCommand(type, fx, fy, tx, ty, color, line_width) ==
    [type |-> type, from_x |-> fx, from_y |-> fy, to_x |-> tx, to_y |-> ty,
     color |-> color, line_width |-> line_width]

\* the length test with the boundary length dropped as well
TooShort_inclusive(command, min_distance) ==
    /\ min_distance >= 0
    /\ distanceSq(command.from_x, command.from_y, command.to_x, command.to_y)
          <= min_distance * min_distance

\* dist < request.min_distance
TooShort(command, min_distance) ==
    /\ min_distance > 0
    /\ distanceSq(command.from_x, command.from_y, command.to_x, command.to_y)
          < min_distance * min_distance

\* format!("{}_{}_{}", command.type, command.color, command.line_width)
GroupKey(command) ==
    command.type \o "_" \o command.color \o "_" \o ToString(command.line_width)

\* the commands that pass the length test, in request order
LongEnough(req) ==
    SelectSeq(req.commands, LAMBDA c : ~TooShort(c, req.min_distance))

\* the HashMap after the first loop: the keys, and the Vec of each key
GroupKeys(req) ==
    { GroupKey(LongEnough(req)[k]) : k \in 1..Len(LongEnough(req)) }
Group(req, key) ==
    SelectSeq(LongEnough(req), LAMBDA c : GroupKey(c) = key)

\* the orders in which iterating the HashMap can yield its keys
IterationOrders(keys) ==
    { order \in [1..Cardinality(keys) -> keys] :
        \A a, b \in 1..Cardinality(keys) : a # b => order[a] # order[b] }

\* the second loop: the groups appended in iteration order, from the k-th on
RECURSIVE ExtendAll(_, _, _, _)
ExtendAll(req, order, k, optimized_commands) ==
    IF k > Len(order) THEN optimized_commands
    ELSE ExtendAll(req, order, k + 1, optimized_commands \o Group(req, order[k]))

\* struct BatchProcessDrawCommandsRequest (max_batch_size is never read)
BatchProcessDrawCommandsRequest(commands, min_distance) ==
    [commands |-> commands, min_distance |-> min_distance]

\* batch_process_draw_commands on a parsed request, for one iteration order
batch_process_draw_commands(req, order) == ExtendAll(req, order, 1, <<>>)

----------------------------------------------------------------------------
(* Stroke compositor: compact_strokes (src-tauri) *)
(* Stroke coordinates are counted in half pixels, so that the cast to i32  *)
(* has something to truncate; pixel coordinates are integers.              *)

\* Option<T>
None == [some |-> FALSE]
Some(v) == [some |-> TRUE, value |-> v]
unwrap_or(opt, default) == IF opt.some THEN opt.value ELSE default

\* struct Stroke of src-tauri
TauriStroke(stroke_type, pts, color, line_width, eraser_size) ==
    [stroke_type |-> stroke_type, points |-> pts, color |-> color,
     line_width |-> line_width, eraser_size |-> eraser_size]

\* struct CompactStrokesRequest; base_image is None, Some of bytes that do
\* not decode, or Some of an image given by its size and pixels
CompactStrokesRequest(base_image, sts, canvas_width, canvas_height) ==
    [base_image |-> base_image, strokes |-> sts,
     canvas_width |-> canvas_width, canvas_height |-> canvas_height]
Undecodable == [decodes |-> FALSE]
Image(w, h, px) == [decodes |-> TRUE, width |-> w, height |-> h, pixels |-> px]

\* `v as i32` for an f32 v given in half pixels: truncation toward zero
as_i32(v) == IF v >= 0 THEN v \div 2 ELSE -((-v) \div 2)

\* u8::from_str_radix(two characters, 16): the value, or -1 for Err
HexValue ==
    [c \in {"0", "1", "2", "3", "4", "5", "6", "7", "8", "9"} |->
        CASE c = "0" -> 0 [] c = "1" -> 1 [] c = "2" -> 2 [] c = "3" -> 3
          [] c = "4" -> 4 [] c = "5" -> 5 [] c = "6" -> 6 [] c = "7" -> 7
          [] c = "8" -> 8 [] c = "9" -> 9]
    @@ [c \in {"a", "b", "c", "d", "e", "f"} |->
        CASE c = "a" -> 10 [] c = "b" -> 11 [] c = "c" -> 12 [] c = "d" -> 13
          [] c = "e" -> 14 [] c = "f" -> 15]
    @@ [c \in {"A", "B", "C", "D", "E", "F"} |->
        CASE c = "A" -> 10 [] c = "B" -> 11 [] c = "C" -> 12 [] c = "D" -> 13
          [] c = "E" -> 14 [] c = "F" -> 15]
from_str_radix16(hi, lo) ==
    IF hi \in DOMAIN HexValue /\ lo \in DOMAIN HexValue
    THEN 16 * HexValue[hi] + HexValue[lo]
    ELSE IF hi = "+" /\ lo \in DOMAIN HexValue
    THEN HexValue[lo]
    ELSE -1
OkOr(parsed, default) == IF parsed >= 0 THEN parsed ELSE default

\* parse_color on a string given as its sequence of (one-byte) characters:
\* always opaque
parse_color(color_str) ==
    IF Len(color_str) = 7 /\ color_str[1] = "#"
    THEN << OkOr(from_str_radix16(color_str[2], color_str[3]), 52),
            OkOr(from_str_radix16(color_str[4], color_str[5]), 152),
            OkOr(from_str_radix16(color_str[6], color_str[7]), 219),
            255 >>
    ELSE <<52, 152, 219, 255>>

\* the digital-line loop shared by draw_line_on_canvas and
\* erase_line_on_canvas: the pixels at which it stamps, in order
RECURSIVE WalkFrom(_, _, _, _, _, _, _, _, _, _)
WalkFrom(x, y, x2, y2, dx, dy, sx, sy, err, visited) ==
    IF x = x2 /\ y = y2
    THEN Append(visited, <<x, y>>)
    ELSE LET e2 == 2 * err
             stepX == e2 > -dy
             stepY == e2 < dx
         IN  WalkFrom(IF stepX THEN x + sx ELSE x,
                      IF stepY THEN y + sy ELSE y,
                      x2, y2, dx, dy, sx, sy,
                      (IF stepX THEN err - dy ELSE err) + (IF stepY THEN dx ELSE 0),
                      Append(visited, <<x, y>>))
\* the loop run from (x2, y2) back to (x1, y1)
LineWalk_fromEnd(x1, y1, x2, y2) ==
    LET dx == Abs(x2 - x1)
        dy == Abs(y2 - y1)
        sx == IF x2 < x1 THEN 1 ELSE -1
        sy == IF y2 < y1 THEN 1 ELSE -1
    IN  WalkFrom(x2, y2, x1, y1, dx, dy, sx, sy, dx - dy, <<>>)

LineWalk(x1, y1, x2, y2) ==
    LET dx == Abs(x2 - x1)
        dy == Abs(y2 - y1)
        sx == IF x1 < x2 THEN 1 ELSE -1
        sy == IF y1 < y2 THEN 1 ELSE -1
    IN  WalkFrom(x1, y1, x2, y2, dx, dy, sx, sy, dx - dy, <<>>)

\* the write guard without its lower bounds
InCanvas_upperOnly(px, py, width, height) ==
    px < width /\ py < height

\* px >= 0 && py >= 0 && (px as u32) < canvas.width() && (py as u32) < canvas.height()
InCanvas(px, py, width, height) ==
    px >= 0 /\ py >= 0 /\ px < width /\ py < height

\* a stamp that writes the whole square
StampTargets_square(x, y, half_width, width, height) ==
    { <<x + wx, y + wy>> : <<wx, wy>> \in
        { o \in ((-half_width)..half_width) \X ((-half_width)..half_width) :
            InCanvas(x + o[1], y + o[2], width, height) } }

\* the pixels one stamp at (x, y) writes: the offsets of the square
\* -half_width..=half_width that pass the guard and lie in the disc
StampTargets(x, y, half_width, width, height) ==
    { <<x + wx, y + wy>> : <<wx, wy>> \in
        { o \in ((-half_width)..half_width) \X ((-half_width)..half_width) :
            /\ InCanvas(x + o[1], y + o[2], width, height)
            /\ o[1] * o[1] + o[2] * o[2] <= half_width * half_width } }

\* the pixels all stamps of one line write
LineTargets(x1, y1, x2, y2, size, width, height) ==
    LET walk == LineWalk(x1, y1, x2, y2)
    IN  UNION { StampTargets(walk[k][1], walk[k][2], size \div 2, width, height) :
                  k \in 1..Len(walk) }

\* a draw stamp that leaves opaque pixels alone
PaintPixel_keepOpaque(pixel, color) ==
    IF pixel[4] = 255 THEN pixel ELSE color

\* what a draw stamp does to one pixel: an opaque colour replaces it, any
\* other colour is blended into its r, g, b
PaintPixel(pixel, color) ==
    IF color[4] = 255
    THEN color
    ELSE << (color[1] * color[4] + pixel[1] * (255 - color[4])) \div 255,
            (color[2] * color[4] + pixel[2] * (255 - color[4])) \div 255,
            (color[3] * color[4] + pixel[3] * (255 - color[4])) \div 255,
            pixel[4] >>

\* an erase stamp that clears the whole pixel
ErasePixel_clear(pixel) == << 0, 0, 0, 0 >>

\* what an erase stamp does to one pixel: pixel[3] = 0
ErasePixel(pixel) == << pixel[1], pixel[2], pixel[3], 0 >>

\* draw_line_on_canvas: the stamps of the walk from the k-th on
RECURSIVE DrawStamps(_, _, _, _, _, _, _)
DrawStamps(cv, walk, k, half_width, color, width, height) ==
    IF k > Len(walk) THEN cv
    ELSE LET targets == StampTargets(walk[k][1], walk[k][2], half_width, width, height)
         IN  DrawStamps([p \in DOMAIN cv |->
                            IF p \in targets THEN PaintPixel(cv[p], color) ELSE cv[p]],
                        walk, k + 1, half_width, color, width, height)
draw_line_on_canvas(cv, width, height, x1, y1, x2, y2, color, line_width) ==
    DrawStamps(cv, LineWalk(x1, y1, x2, y2), 1, line_width \div 2, color, width, height)

\* erase_line_on_canvas: the stamps of the walk from the k-th on
RECURSIVE EraseStamps(_, _, _, _, _, _)
EraseStamps(cv, walk, k, half_width, width, height) ==
    IF k > Len(walk) THEN cv
    ELSE LET targets == StampTargets(walk[k][1], walk[k][2], half_width, width, height)
         IN  EraseStamps([p \in DOMAIN cv |->
                             IF p \in targets THEN ErasePixel(cv[p]) ELSE cv[p]],
                         walk, k + 1, half_width, width, height)
erase_line_on_canvas(cv, width, height, x1, y1, x2, y2, eraser_size) ==
    EraseStamps(cv, LineWalk(x1, y1, x2, y2), 1, eraser_size \div 2, width, height)

\* the default colour "#3498db" as its characters
DefaultColor == << "#", "3", "4", "9", "8", "d", "b" >>
DefaultLineWidth == 2
DefaultEraserSize == 15

\* the loops over the points of a draw stroke and of an erase stroke
RECURSIVE DrawPoints(_, _, _, _, _, _, _)
DrawPoints(cv, pts, k, color, line_width, width, height) ==
    IF k > Len(pts) THEN cv
    ELSE DrawPoints(draw_line_on_canvas(cv, width, height,
                        as_i32(pts[k].from_x), as_i32(pts[k].from_y),
                        as_i32(pts[k].to_x), as_i32(pts[k].to_y),
                        color, line_width),
                    pts, k + 1, color, line_width, width, height)
RECURSIVE ErasePoints(_, _, _, _, _, _)
ErasePoints(cv, pts, k, eraser_size, width, height) ==
    IF k > Len(pts) THEN cv
    ELSE ErasePoints(erase_line_on_canvas(cv, width, height,
                         as_i32(pts[k].from_x), as_i32(pts[k].from_y),
                         as_i32(pts[k].to_x), as_i32(pts[k].to_y),
                         eraser_size),
                     pts, k + 1, eraser_size, width, height)

\* the size of the brush a stroke stamps with
BrushSize(st) ==
    IF st.stroke_type = "draw"
    THEN unwrap_or(st.line_width, DefaultLineWidth)
    ELSE unwrap_or(st.eraser_size, DefaultEraserSize)

\* one iteration of the stroke loop of compact_strokes
ApplyStroke(cv, st, width, height) ==
    IF st.points = <<>> THEN cv
    ELSE IF st.stroke_type = "draw"
    THEN DrawPoints(cv, st.points, 1, parse_color(unwrap_or(st.color, DefaultColor)),
                    BrushSize(st), width, height)
    ELSE IF st.stroke_type = "erase"
    THEN ErasePoints(cv, st.points, 1, BrushSize(st), width, height)
    ELSE cv

\* the coordinates that iteration writes
StrokeWrites(st, width, height) ==
    IF st.points # <<>> /\ st.stroke_type \in {"draw", "erase"}
    THEN UNION { LineTargets(as_i32(st.points[k].from_x), as_i32(st.points[k].from_y),
                             as_i32(st.points[k].to_x), as_i32(st.points[k].to_y),
                             BrushSize(st), width, height) :
                   k \in 1..Len(st.points) }
    ELSE {}

\* the canvas before the stroke loop: transparent, then the base image where
\* it decodes, clipped to the canvas
Pixels(width, height) == (0..(width - 1)) \X (0..(height - 1))
BlankCanvas(width, height) == [p \in Pixels(width, height) |-> <<0, 0, 0, 0>>]
LoadBase(cv, base_image) ==
    IF base_image.some /\ base_image.value.decodes
    THEN [p \in DOMAIN cv |->
            IF p[1] < base_image.value.width /\ p[2] < base_image.value.height
            THEN base_image.value.pixels[p]
            ELSE cv[p]]
    ELSE cv
InitialCanvas(req) ==
    LoadBase(BlankCanvas(req.canvas_width, req.canvas_height), req.base_image)

\* the stroke loop from the k-th stroke on, and compact_strokes as a whole
\* (the raster it encodes)
RECURSIVE StrokesLoop(_, _, _, _, _)
StrokesLoop(cv, sts, k, width, height) ==
    IF k > Len(sts) THEN cv
    ELSE StrokesLoop(ApplyStroke(cv, sts[k], width, height), sts, k + 1, width, height)
compact_strokes(req) ==
    StrokesLoop(InitialCanvas(req), req.strokes, 1, req.canvas_width, req.canvas_height)

----------------------------------------------------------------------------
(* Path smoothing: smooth_path *)

\* smoothness is carried in tenths: the f32 value is smoothness / SmoothUnit
SmoothUnit == 10

\* struct PathSmoothRequest
PathSmoothRequest(pts, smoothness, algorithm) ==
    [points |-> pts, smoothness |-> smoothness, algorithm |-> algorithm]

\* `(3.0 + request.smoothness * 7.0) as usize`: the cast drops the fraction
\* and saturates at 0
window_size(smoothness) ==
    LET scaled == 3 * SmoothUnit + smoothness * 7
    IN  IF scaled < 0 THEN 0 ELSE scaled \div SmoothUnit

\* prefix_c[i] for the coordinate c: the sum of the first i points' c
RECURSIVE Prefix(_, _, _)
Prefix(pts, c, i) ==
    IF i = 0 THEN 0 ELSE Prefix(pts, c, i - 1) + At(pts, i - 1)[c]

\* sum / count of the coordinate c over the points start..end (0-based)
WindowMean(pts, c, start, end) ==
    Frac(Prefix(pts, c, end + 1) - Prefix(pts, c, start), end - start + 1)

\* the point pushed for index i by the moving_average branch
AveragedPoint(pts, i, half_window) ==
    LET start == Max2(i - half_window, 0)
        end == Min2(i + half_window, Len(pts) - 1)
    IN  StrokePoint(WindowMean(pts, "from_x", start, end),
                    WindowMean(pts, "from_y", start, end),
                    WindowMean(pts, "to_x", start, end),
                    WindowMean(pts, "to_y", start, end))

MovingAverage(pts, smoothness) ==
    LET half_window == window_size(smoothness) \div 2
    IN  [k \in 1..Len(pts) |-> AveragedPoint(pts, k - 1, half_window)]

\* a point copied to the output as it is
Cloned(pt) ==
    StrokePoint(Frac(pt.from_x, 1), Frac(pt.from_y, 1),
                Frac(pt.to_x, 1), Frac(pt.to_y, 1))

\* a + (b - a) * smooth_factor with smooth_factor = smoothness * 0.5
Pull(a, b, smoothness) ==
    Frac(a * 2 * SmoothUnit + (b - a) * smoothness, 2 * SmoothUnit)

\* the interior point of the corner-rounding branch pulled toward the
\* previous point's from-corner
RoundedPoint_prevFrom(pts, i, smoothness) ==
    LET prev == At(pts, i - 1)
        curr == At(pts, i)
        next == At(pts, i + 1)
    IN  StrokePoint(Pull(curr.from_x, prev.from_x, smoothness),
                    Pull(curr.from_y, prev.from_y, smoothness),
                    Pull(curr.to_x, next.from_x, smoothness),
                    Pull(curr.to_y, next.from_y, smoothness))

\* the point pushed for the interior index i by the other branch
RoundedPoint(pts, i, smoothness) ==
    LET prev == At(pts, i - 1)
        curr == At(pts, i)
        next == At(pts, i + 1)
    IN  StrokePoint(Pull(curr.from_x, prev.to_x, smoothness),
                    Pull(curr.from_y, prev.to_y, smoothness),
                    Pull(curr.to_x, next.from_x, smoothness),
                    Pull(curr.to_y, next.from_y, smoothness))

CornerRounding(pts, smoothness) ==
    << Cloned(At(pts, 0)) >>
    \o [k \in 1..(Len(pts) - 2) |-> RoundedPoint(pts, k, smoothness)]
    \o << Cloned(At(pts, Len(pts) - 1)) >>

\* smooth_path on a parsed PathSmoothRequest
smooth_path(req) ==
    IF Len(req.points) < 2
    THEN [k \in 1..Len(req.points) |-> Cloned(req.points[k])]
    ELSE IF req.algorithm = "moving_average"
    THEN MovingAverage(req.points, req.smoothness)
    ELSE CornerRounding(req.points, req.smoothness)

----------------------------------------------------------------------------
(* Inputs *)

RECURSIVE SeqsUpTo(_, _)
SeqsUpTo(S, n) ==
    IF n = 0 THEN { <<>> }
    ELSE LET shorter == SeqsUpTo(S, n - 1)
         IN  shorter \cup { Append(s, x) : s \in { t \in shorter : Len(t) = n - 1 }, x \in S }

\* points given to the simplifier: dots (to = from) on row 0 and dashes one
\* grid unit long on row 1
InputPoints ==
    { StrokePoint(x, y, x + y, y) : x \in 0..MaxX, y \in 0..1 }

\* clock readings: just before, at and just after each multiple of the interval
Times == { t \in 0..MaxTime : t % MinInterval \in {0, 1, MinInterval - 1} }

\* raw pointer samples: a short movement and a long one
RawSamples == { StrokePoint(0, 0, 1, 0), StrokePoint(1, 1, 4, 5) }

\* PointOptimizationConfig; quantization > 0
Configs ==
    [quantization : {1, 2}, min_distance : {0, 2}, epsilon : {0}]

\* bounds: segments with every coordinate in -1..MaxB
BoundsPoints ==
    { StrokePoint(fx, fy, tx, ty) : fx \in (-1)..MaxB, fy \in (-1)..MaxB,
                                    tx \in (-1)..MaxB, ty \in (-1)..MaxB }

\* cull: viewports of positive width and height
Viewports == [x : 0..MaxV, y : 0..MaxV, width : 1..MaxV, height : 1..MaxV]

\* cull: every segment of the grid 0..MaxG, for single-segment strokes
GridSegments ==
    { StrokePoint(fx, fy, tx, ty) : fx \in 0..MaxG, fy \in 0..MaxG,
                                    tx \in 0..MaxG, ty \in 0..MaxG }

\* cull: the segments of the strokes of longer lists: a horizontal one and
\* a diagonal one
ListSegments ==
    { StrokePoint(1, 2, 3, 2), StrokePoint(0, 3, 3, 0) }

CullLists ==
    SeqsUpTo({ Stroke("draw", ps) : ps \in SeqsUpTo(ListSegments, MaxStrokeLen) }, MaxStrokes)
    \cup { << Stroke("draw", <<g>>) >> : g \in GridSegments }

\* collision: the shape-kind tags the documentation lists and one it does not
Tags == {"rect", "circle", "line", "stroke", "polygon"}

\* collision: circle payloads on the grid 0..MaxC with radii in -1..MaxR
CirclePayloads ==
    { Object([x |-> Number(cx), y |-> Number(cy), radius |-> Number(r)]) :
        cx \in 0..MaxC, cy \in 0..MaxC, r \in (-1)..MaxR }

\* collision: payloads of every kind, well-formed and not, for requests of
\* every pair of tags
AnyPayloads ==
    { Object([x |-> Number(0), y |-> Number(0), radius |-> Number(1)]),
      Object([x |-> Number(1), y |-> Number(0), radius |-> Number(1)]),
      Object([x |-> Number(0), y |-> Number(0), width |-> Number(2), height |-> Number(2)]),
      Object([x |-> Number(1), y |-> Number(1), width |-> Number(1), height |-> Number(1)]),
      Object([x1 |-> Number(0), y1 |-> Number(0), x2 |-> Number(2), y2 |-> Number(2)]),
      Object([x1 |-> Number(0), y1 |-> Number(2), x2 |-> Number(2), y2 |-> Number(0)]),
      Object([x |-> Number(1), y |-> StringValue]),
      Null }

\* eraser: target strokes of longer lists: a long horizontal segment, a
\* stroke whose second segment is that one, the same as an erase stroke, a
\* stroke without points and a far dot
TargetStrokes ==
    { Stroke("draw", << StrokePoint(0, 0, 4, 0) >>),
      Stroke("draw", << StrokePoint(0, 3, 0, 4), StrokePoint(0, 0, 4, 0) >>),
      Stroke("erase", << StrokePoint(0, 0, 4, 0) >>),
      Stroke("draw", <<>>),
      Stroke("draw", << StrokePoint(4, 4, 4, 4) >>) }

\* eraser: the eraser strokes
EraserStrokes ==
    { Stroke("erase", << StrokePoint(2, 1, 2, 2) >>),
      Stroke("erase", << StrokePoint(4, 3, 3, 3), StrokePoint(2, 1, 2, 2) >>),
      Stroke("erase", <<>>) }

\* eraser: requests over lists of target strokes, and over every single
\* segment of the grid
EraserRequests ==
    { EraserCollisionRequest(sts, e, t) :
        sts \in SeqsUpTo(TargetStrokes, MaxTargets), e \in EraserStrokes,
        t \in (-1)..MaxTol }
    \cup { EraserCollisionRequest(<< Stroke("draw", <<g>>) >>, e, t) :
              g \in GridSegments, e \in EraserStrokes, t \in (-1)..MaxTol }

\* batch: commands of four styles, two of which have the same key text; one
\* command of zero length and two of length 2 that differ in position
BatchCommands ==
    { DrawCommand("draw_x", 0, 0, 2, 0, "red", 1),
      DrawCommand("draw", 0, 0, 2, 0, "x_red", 1),
      DrawCommand("draw", 0, 0, 2, 0, "red", 1),
      DrawCommand("draw", 0, 1, 2, 1, "red", 1),
      DrawCommand("draw", 1, 1, 1, 1, "red", 1),
      DrawCommand("draw", 0, 0, 2, 0, "red", 2) }

\* batch: requests
BatchRequests ==
    { BatchProcessDrawCommandsRequest(cs, m) :
        cs \in SeqsUpTo(BatchCommands, MaxCommands), m \in 0..MaxMinDist }

\* compositor: colours as the characters of their strings
Red == << "#", "f", "f", "0", "0", "0", "0" >>
Blue == << "#", "0", "0", "0", "0", "F", "F" >>

\* compositor: a stroke of one segment; coordinates in half pixels
Segment(fx, fy, tx, ty) == << StrokePoint(fx, fy, tx, ty) >>

\* compositor: the strokes of stroke lists: a thin diagonal, a dot of radius
\* 1, an eraser row that enters and leaves the canvas, a thick line from a
\* negative corner, a stroke without points, a stroke of unknown type, a
\* two-segment stroke with default colour and width, and an eraser of
\* default size
LayerStrokes ==
    { TauriStroke("draw", Segment(0, 0, 6, 4), Some(Red), Some(1), None),
      TauriStroke("draw", Segment(2, 2, 2, 2), Some(Blue), Some(2), None),
      TauriStroke("erase", Segment(-2, 2, 8, 2), None, None, Some(2)),
      TauriStroke("draw", Segment(-3, -3, 2, 0), Some(Red), Some(4), None),
      TauriStroke("draw", <<>>, Some(Red), Some(2), None),
      TauriStroke("highlight", Segment(0, 0, 6, 4), Some(Red), Some(2), None),
      TauriStroke("draw", << StrokePoint(6, 4, 6, 4), StrokePoint(0, 4, 1, 4) >>,
                  None, None, None),
      TauriStroke("erase", Segment(2, 2, 2, 2), None, None, None) }

\* compositor: a 2 x 2 base image of translucent grey
BaseImage == Image(2, 2, [p \in Pixels(2, 2) |-> <<10, 20, 30, 200>>])
BaseImages == { None, Some(Undecodable), Some(BaseImage) }

\* compositor: every segment between pixel corners of the canvas and one
\* pixel around it, drawn in red or erased, for widths 1..MaxWidth
PixelSegments ==
    { Segment(2 * fx, 2 * fy, 2 * tx, 2 * ty) :
        fx \in (-1)..MaxCanvasW, fy \in (-1)..MaxCanvasH,
        tx \in (-1)..MaxCanvasW, ty \in (-1)..MaxCanvasH }
SingleDraws ==
    { TauriStroke("draw", seg, Some(Red), Some(w), None) :
        seg \in PixelSegments, w \in 1..MaxWidth }
SingleErases ==
    { TauriStroke("erase", seg, None, None, Some(w)) :
        seg \in PixelSegments, w \in 1..MaxWidth }

\* compositor: requests
CompactRequests ==
    { CompactStrokesRequest(b, sts, MaxCanvasW, MaxCanvasH) :
        b \in BaseImages, sts \in SeqsUpTo(LayerStrokes, MaxLayers) }
    \cup { CompactStrokesRequest(None, <<st>>, MaxCanvasW, MaxCanvasH) :
              st \in SingleDraws }
    \cup { CompactStrokesRequest(Some(BaseImage), <<st>>, MaxCanvasW, MaxCanvasH) :
              st \in SingleErases }

\* one stroke list for every stroke operation: a draw stroke, a stroke
\* without points and an erase stroke (coordinates read as half pixels by the
\* compositor)
SharedStrokes ==
    { Stroke("draw", << StrokePoint(0, 0, 4, 2) >>),
      Stroke("draw", <<>>),
      Stroke("erase", << StrokePoint(2, 2, 2, 2) >>) }
SharedLists == SeqsUpTo(SharedStrokes, MaxShared)
\* the same stroke as the compositor receives it
AsTauriStroke(st) == TauriStroke(st.type, st.points, Some(Red), Some(2), Some(2))
AsTauriStrokes(sts) == [k \in 1..Len(sts) |-> AsTauriStroke(sts[k])]
SharedViewport == [x |-> 0, y |-> 0, width |-> 4, height |-> 4]
SharedEraser == Stroke("erase", << StrokePoint(1, 1, 1, 1) >>)

\* smooth_path: paths over three segments that do not join up, every
\* smoothness from 0 in tenths, the averaging algorithm and two other names
PathPoints ==
    { StrokePoint(0, 0, 2, 0), StrokePoint(3, 1, 3, 4), StrokePoint(5, 5, 9, 2) }
Algorithms == { "moving_average", "bezier", "" }
SmoothRequests ==
    { PathSmoothRequest(pts, smoothness, algorithm) :
          pts \in SeqsUpTo(PathPoints, MaxPath),
          smoothness \in 0..MaxSmooth,
          algorithm \in Algorithms }

\* the simplifier's loop: sequences of at least three points over three
\* dots that are not collinear
RunPoints ==
    { StrokePoint(0, 0, 0, 0), StrokePoint(2, 0, 2, 0), StrokePoint(1, 3, 1, 3) }
RunInputs == { pts \in SeqsUpTo(RunPoints, MaxRun) : Len(pts) >= 3 }

----------------------------------------------------------------------------
(* The components as request/response machines.  Each specification runs *)
(* one component and leaves the others idle.                             *)

IdleSimplify ==
    /\ points = <<>> /\ epsilon = 0 /\ simplified = <<>> /\ kept = <<>>
    /\ resimplified = <<>> /\ sphase = "idle"

IdleQuantize ==
    /\ coord = 0 /\ qstep = 1 /\ quantized = 0 /\ qphase = "idle"

IdleCollect ==
    /\ lastTime = 0 /\ lastX = 0 /\ lastY = 0 /\ samples = <<>>
    /\ collected = <<>>
    /\ cstatus = "idle" /\ overflowChecks = FALSE /\ startTime = 0
    /\ clock = 0 /\ monotone = TRUE /\ commitLog = <<>>

IdleBounds ==
    /\ stroke = Stroke("draw", <<>>) /\ bounds = Bounds(0, 0, 0, 0) /\ bphase = "idle"

IdleCull ==
    /\ viewport = [x |-> 0, y |-> 0, width |-> 0, height |-> 0]
    /\ strokes = <<>> /\ visible = <<>> /\ vphase = "idle"

IdleCollision ==
    /\ shapes = UnparsedRequest /\ collides = FALSE /\ xphase = "idle"

IdleEraser ==
    /\ eraserRequest = EraserCollisionRequest(<<>>, Stroke("erase", <<>>), 0)
    /\ hits = EraserCollisionResponse(<<>>, <<>>)
    /\ ephase = "idle"

IdleBatch ==
    /\ batchRequest = BatchProcessDrawCommandsRequest(<<>>, 0)
    /\ optimized = <<>>
    /\ dphase = "idle"

IdleCompact ==
    /\ compactRequest = CompactStrokesRequest(None, <<>>, 0, 0)
    /\ canvas = BlankCanvas(0, 0)
    /\ previous = BlankCanvas(0, 0)
    /\ writes = {}
    /\ applied = 0
    /\ kphase = "idle"

IdleLine ==
    /\ lineEnds = <<0, 0, 0, 0>>
    /\ walked = <<>>
    /\ lphase = "idle"

IdleStack ==
    /\ workStack = <<>>
    /\ emitted = <<>>
    /\ wphase = "idle"

IdleSmooth ==
    /\ smoothRequest = PathSmoothRequest(<<>>, 0, "")
    /\ smoothed = <<>>
    /\ mphase = "idle"

(* ---- simplify_points ---- *)

InitSimplify ==
    /\ points \in SeqsUpTo(InputPoints, MaxLen)
    /\ epsilon \in 0..MaxEps
    /\ simplified = <<>>
    /\ kept = <<>>
    /\ resimplified = <<>>
    /\ sphase = "input"
    /\ IdleQuantize /\ IdleCollect /\ IdleBounds /\ IdleCull /\ IdleCollision /\ IdleEraser /\ IdleBatch /\ IdleCompact /\ IdleSmooth /\ IdleStack /\ IdleLine

\* simplify_points(points_json, epsilon)
SimplifyPoints ==
    /\ sphase = "input"
    /\ simplified' = simplify_points_iterative(points, epsilon)
    /\ kept' = SimplifyIndices(points, epsilon)
    /\ sphase' = "once"
    /\ UNCHANGED <<points, epsilon, resimplified, quantizeVars, collectVars,
                   boundsVars, cullVars, collisionVars, eraserVars,
                   batchVars, compactVars, smoothVars, stackVars, lineVars>>

\* the host passes the response back to simplify_points with the same epsilon
SimplifyAgain ==
    /\ sphase = "once"
    /\ resimplified' = simplify_points_iterative(simplified, epsilon)
    /\ sphase' = "twice"
    /\ UNCHANGED <<points, epsilon, simplified, kept, quantizeVars, collectVars,
                   boundsVars, cullVars, collisionVars, eraserVars,
                   batchVars, compactVars, smoothVars, stackVars, lineVars>>

NextSimplify == SimplifyPoints \/ SimplifyAgain

SpecSimplify == InitSimplify /\ [][NextSimplify]_vars

(* ---- quantize_coord ---- *)

InitQuantize ==
    /\ coord \in (-MaxCoord)..MaxCoord
    /\ qstep \in 1..MaxStep
    /\ quantized = 0
    /\ qphase = "input"
    /\ IdleSimplify /\ IdleCollect /\ IdleBounds /\ IdleCull /\ IdleCollision /\ IdleEraser /\ IdleBatch /\ IdleCompact /\ IdleSmooth /\ IdleStack /\ IdleLine

QuantizeCoord ==
    /\ qphase = "input"
    /\ quantized' = quantize_coord(coord, qstep)
    /\ qphase' = "done"
    /\ UNCHANGED <<coord, qstep, simplifyVars, collectVars, boundsVars, cullVars, collisionVars,
                       eraserVars, batchVars, compactVars, smoothVars,
                       stackVars, lineVars>>

NextQuantize == QuantizeCoord

SpecQuantize == InitQuantize /\ [][NextQuantize]_vars

(* ---- collect_points ---- *)

Init ==
    /\ lastTime \in {0, MinInterval}
    /\ lastX = 0
    /\ lastY = 0
    /\ samples = <<>>
    /\ collected = <<>>
    /\ cstatus = "ready"
    /\ overflowChecks \in BOOLEAN
    /\ startTime = lastTime
    /\ clock = lastTime
    /\ monotone = TRUE
    /\ commitLog = <<>>
    /\ IdleSimplify /\ IdleQuantize /\ IdleBounds /\ IdleCull /\ IdleCollision /\ IdleEraser /\ IdleBatch /\ IdleCompact /\ IdleSmooth /\ IdleStack /\ IdleLine

\* one collect_points call: the host passes the cursor it holds and takes
\* the cursor of the response; a panicking call returns nothing
CollectPoints(pts, config, now) ==
    LET request == [points |-> pts, config |-> config, last_time |-> lastTime,
                    last_x |-> lastX, last_y |-> lastY, current_time |-> now]
        r == collect_points(request, overflowChecks)
    IN  /\ cstatus # "idle"
        /\ Len(commitLog) < MaxCommits
        /\ clock' = now
        /\ monotone' = (monotone /\ now >= clock)
        /\ IF r.panicked
           THEN /\ cstatus' = "panic"
                /\ UNCHANGED <<lastTime, lastX, lastY, collected, commitLog>>
           ELSE /\ cstatus' = "ok"
                /\ lastTime' = r.last_time
                /\ lastX' = r.last_x
                /\ lastY' = r.last_y
                /\ collected' = r.collected
                /\ commitLog' = commitLog \o [k \in 1..Len(r.collected) |-> now]
        /\ UNCHANGED <<overflowChecks, startTime, samples, simplifyVars, quantizeVars,
                       boundsVars, cullVars, collisionVars, eraserVars,
                       batchVars, compactVars, smoothVars, stackVars,
                       lineVars>>

Next ==
    \E pts \in SeqsUpTo(RawSamples, MaxSamples), config \in Configs, now \in Times :
        CollectPoints(pts, config, now)

Spec == Init /\ [][Next]_vars

(* ---- collect_points, one call ---- *)

\* one request: the cursor passed is (lastTime, 0, 0), the points are
\* `samples` and currentTime is `clock`; the config is drawn at the call
InitCall ==
    /\ lastTime \in Times
    /\ lastX = 0
    /\ lastY = 0
    /\ samples \in SeqsUpTo(RawSamples, MaxSamples)
    /\ collected = <<>>
    /\ cstatus = "ready"
    /\ overflowChecks \in BOOLEAN
    /\ startTime = lastTime
    /\ clock \in Times
    /\ monotone = TRUE
    /\ commitLog = <<>>
    /\ IdleSimplify /\ IdleQuantize /\ IdleBounds /\ IdleCull /\ IdleCollision /\ IdleEraser /\ IdleBatch /\ IdleCompact /\ IdleSmooth /\ IdleStack /\ IdleLine

CollectCall(config) ==
    /\ cstatus = "ready"
    /\ CollectPoints(samples, config, clock)

NextCall == \E config \in Configs : CollectCall(config)

SpecCall == InitCall /\ [][NextCall]_vars

(* ---- calculate_stroke_bounds ---- *)

InitBounds ==
    /\ stroke \in { Stroke("draw", ps) : ps \in SeqsUpTo(BoundsPoints, MaxBoundsLen) }
    /\ bounds = Bounds(0, 0, 0, 0)
    /\ bphase = "input"
    /\ IdleSimplify /\ IdleQuantize /\ IdleCollect /\ IdleCull /\ IdleCollision /\ IdleEraser /\ IdleBatch /\ IdleCompact /\ IdleSmooth /\ IdleStack /\ IdleLine

CalculateStrokeBounds ==
    /\ bphase = "input"
    /\ bounds' = calculate_stroke_bounds(stroke)
    /\ bphase' = "done"
    /\ UNCHANGED <<stroke, simplifyVars, quantizeVars, collectVars, cullVars, collisionVars,
                       eraserVars, batchVars, compactVars, smoothVars,
                       stackVars, lineVars>>

NextBounds == CalculateStrokeBounds

SpecBounds == InitBounds /\ [][NextBounds]_vars

(* ---- cull_strokes_by_viewport ---- *)

InitCull ==
    /\ viewport \in Viewports
    /\ strokes \in CullLists
    /\ visible = <<>>
    /\ vphase = "input"
    /\ IdleSimplify /\ IdleQuantize /\ IdleCollect /\ IdleBounds /\ IdleCollision /\ IdleEraser /\ IdleBatch /\ IdleCompact /\ IdleSmooth /\ IdleStack /\ IdleLine

CullStrokesByViewport ==
    /\ vphase = "input"
    /\ visible' = cull_strokes_by_viewport(strokes, viewport)
    /\ vphase' = "done"
    /\ UNCHANGED <<viewport, strokes, simplifyVars, quantizeVars, collectVars, boundsVars,
                       collisionVars, eraserVars, batchVars, compactVars,
                       smoothVars, stackVars, lineVars>>

NextCull == CullStrokesByViewport

SpecCull == InitCull /\ [][NextCull]_vars

(* ---- complex_collision_detection ---- *)

InitCollision ==
    /\ shapes \in
          { ComplexCollisionRequest(t1, d1, t2, d2) :
                t1 \in Tags, d1 \in AnyPayloads, t2 \in Tags, d2 \in AnyPayloads }
          \cup { ComplexCollisionRequest("circle", c1, "circle", c2) :
                    c1 \in CirclePayloads, c2 \in CirclePayloads }
          \cup { UnparsedRequest }
    /\ collides = FALSE
    /\ xphase = "input"
    /\ IdleSimplify /\ IdleQuantize /\ IdleCollect /\ IdleBounds /\ IdleCull /\ IdleEraser /\ IdleBatch /\ IdleCompact /\ IdleSmooth /\ IdleStack /\ IdleLine

ComplexCollisionDetection ==
    /\ xphase = "input"
    /\ collides' = complex_collision_detection(shapes)
    /\ xphase' = "done"
    /\ UNCHANGED <<shapes, simplifyVars, quantizeVars, collectVars, boundsVars,
                   cullVars, eraserVars, batchVars, compactVars, smoothVars,
                   stackVars, lineVars>>

NextCollision == ComplexCollisionDetection

SpecCollision == InitCollision /\ [][NextCollision]_vars

(* ---- detect_eraser_collision ---- *)

InitEraser ==
    /\ eraserRequest \in EraserRequests
    /\ hits = EraserCollisionResponse(<<>>, <<>>)
    /\ ephase = "input"
    /\ IdleSimplify /\ IdleQuantize /\ IdleCollect /\ IdleBounds /\ IdleCull /\ IdleCollision /\ IdleBatch /\ IdleCompact /\ IdleSmooth /\ IdleStack /\ IdleLine

DetectEraserCollision ==
    /\ ephase = "input"
    /\ hits' = detect_eraser_collision(eraserRequest)
    /\ ephase' = "done"
    /\ UNCHANGED <<eraserRequest, simplifyVars, quantizeVars, collectVars,
                   boundsVars, cullVars, collisionVars, batchVars,
                   compactVars, smoothVars, stackVars, lineVars>>

NextEraser == DetectEraserCollision

SpecEraser == InitEraser /\ [][NextEraser]_vars

(* ---- batch_process_draw_commands ---- *)

InitBatch ==
    /\ batchRequest \in BatchRequests
    /\ optimized = <<>>
    /\ dphase = "input"
    /\ IdleSimplify /\ IdleQuantize /\ IdleCollect /\ IdleBounds /\ IdleCull /\ IdleCompact /\ IdleSmooth /\ IdleStack /\ IdleLine
    /\ IdleCollision /\ IdleEraser /\ IdleCompact /\ IdleSmooth /\ IdleStack /\ IdleLine

\* one call; the order in which the HashMap yields its groups is not fixed
BatchProcessDrawCommands(order) ==
    /\ dphase = "input"
    /\ optimized' = batch_process_draw_commands(batchRequest, order)
    /\ dphase' = "done"
    /\ UNCHANGED <<batchRequest, simplifyVars, quantizeVars, collectVars,
                   boundsVars, cullVars, collisionVars, eraserVars,
                   compactVars, smoothVars, stackVars, lineVars>>

NextBatch ==
    \E order \in IterationOrders(GroupKeys(batchRequest)) :
        BatchProcessDrawCommands(order)

SpecBatch == InitBatch /\ [][NextBatch]_vars

(* ---- compact_strokes ---- *)

\* the request has arrived and the canvas holds the base image
InitCompact ==
    /\ compactRequest \in CompactRequests
    /\ canvas = InitialCanvas(compactRequest)
    /\ previous = InitialCanvas(compactRequest)
    /\ writes = {}
    /\ applied = 0
    /\ kphase = "strokes"
    /\ IdleSimplify /\ IdleQuantize /\ IdleCollect /\ IdleBounds /\ IdleCull /\ IdleSmooth /\ IdleStack /\ IdleLine
    /\ IdleCollision /\ IdleEraser /\ IdleBatch /\ IdleSmooth /\ IdleStack /\ IdleLine

\* one iteration of `for stroke in &request.strokes`; a write outside the
\* image buffer panics
ApplyNextStroke ==
    /\ kphase = "strokes"
    /\ applied < Len(compactRequest.strokes)
    /\ LET st == compactRequest.strokes[applied + 1]
           w == StrokeWrites(st, compactRequest.canvas_width,
                             compactRequest.canvas_height)
       IN  /\ previous' = canvas
           /\ writes' = w
           /\ applied' = applied + 1
           /\ IF w \subseteq DOMAIN canvas
              THEN /\ canvas' = ApplyStroke(canvas, st, compactRequest.canvas_width,
                                            compactRequest.canvas_height)
                   /\ kphase' = kphase
              ELSE /\ canvas' = canvas
                   /\ kphase' = "panic"
    /\ UNCHANGED <<compactRequest, simplifyVars, quantizeVars, collectVars,
                   boundsVars, cullVars, collisionVars, eraserVars, batchVars,
                   smoothVars, stackVars, lineVars>>

\* after the last stroke the canvas is encoded and returned
Encode ==
    /\ kphase = "strokes"
    /\ applied = Len(compactRequest.strokes)
    /\ kphase' = "encoded"
    /\ UNCHANGED <<compactRequest, canvas, previous, writes, applied,
                   simplifyVars, quantizeVars, collectVars, boundsVars, cullVars,
                   collisionVars, eraserVars, batchVars, smoothVars,
                   stackVars, lineVars>>

NextCompact == ApplyNextStroke \/ Encode

SpecCompact == InitCompact /\ [][NextCompact]_vars

(* ---- simplify_points_iterative, iteration by iteration ---- *)

\* the state at `while let Some((start, end)) = stack.pop()` for an input of
\* more than two points: the whole range is on the stack
InitStack ==
    /\ points \in RunInputs
    /\ epsilon \in (-1)..MaxEps
    /\ simplified = <<>>
    /\ kept = <<>>
    /\ resimplified = <<>>
    /\ sphase = "idle"
    /\ workStack = << <<0, Len(points) - 1>> >>
    /\ emitted = <<>>
    /\ wphase = "loop"
    /\ IdleQuantize /\ IdleCollect /\ IdleBounds /\ IdleCull /\ IdleCollision /\ IdleEraser /\ IdleBatch /\ IdleCompact /\ IdleSmooth /\ IdleLine

\* one iteration of the loop; a run that has emitted MaxEmit indices is not
\* followed further
PopRange ==
    /\ wphase = "loop"
    /\ workStack # <<>>
    /\ Len(emitted) < MaxEmit
    /\ workStack' = ProcessRange(points, epsilon, workStack, emitted).stack
    /\ emitted' = ProcessRange(points, epsilon, workStack, emitted).result
    /\ UNCHANGED <<wphase, simplifyVars, quantizeVars, collectVars, boundsVars,
                   cullVars, collisionVars, eraserVars, batchVars, compactVars,
                   smoothVars, lineVars>>

\* the pop finds the stack empty: the post-pass runs and the function returns
LoopExit ==
    /\ wphase = "loop"
    /\ workStack = <<>>
    /\ kept' = UniqueResult(points, emitted, 1, <<>>)
    /\ simplified' = [k \in 1..Len(kept') |-> At(points, kept'[k])]
    /\ wphase' = "done"
    /\ UNCHANGED <<points, epsilon, resimplified, sphase, workStack, emitted,
                   quantizeVars, collectVars, boundsVars, cullVars,
                   collisionVars, eraserVars, batchVars, compactVars,
                   smoothVars, lineVars>>

NextStack == PopRange \/ LoopExit

SpecStack == InitStack /\ [][NextStack]_vars

(* ---- the digital-line loop ---- *)

InitLine ==
    /\ lineEnds \in ((-MaxWalk)..MaxWalk) \X ((-MaxWalk)..MaxWalk)
                    \X ((-MaxWalk)..MaxWalk) \X ((-MaxWalk)..MaxWalk)
    /\ walked = <<>>
    /\ lphase = "input"
    /\ IdleSimplify /\ IdleQuantize /\ IdleCollect /\ IdleBounds /\ IdleCull /\ IdleCollision /\ IdleEraser /\ IdleBatch /\ IdleCompact /\ IdleSmooth /\ IdleStack

\* the loop of draw_line_on_canvas and erase_line_on_canvas, run until its
\* break, with the position of every stamp recorded
WalkLine ==
    /\ lphase = "input"
    /\ walked' = LineWalk(lineEnds[1], lineEnds[2], lineEnds[3], lineEnds[4])
    /\ lphase' = "done"
    /\ UNCHANGED <<lineEnds, simplifyVars, quantizeVars, collectVars, boundsVars,
                   cullVars, collisionVars, eraserVars, batchVars, compactVars,
                   smoothVars, stackVars>>

NextLine == WalkLine

SpecLine == InitLine /\ [][NextLine]_vars

(* ---- smooth_path ---- *)

InitSmooth ==
    /\ smoothRequest \in SmoothRequests
    /\ smoothed = <<>>
    /\ mphase = "input"
    /\ IdleSimplify /\ IdleQuantize /\ IdleCollect /\ IdleBounds /\ IdleCull /\ IdleCollision /\ IdleEraser /\ IdleBatch /\ IdleCompact /\ IdleStack /\ IdleLine

SmoothPath ==
    /\ mphase = "input"
    /\ smoothed' = smooth_path(smoothRequest)
    /\ mphase' = "done"
    /\ UNCHANGED <<smoothRequest, simplifyVars, quantizeVars, collectVars,
                   boundsVars, cullVars, collisionVars, eraserVars, batchVars,
                   compactVars, stackVars, lineVars>>

NextSmooth == SmoothPath

SpecSmooth == InitSmooth /\ [][NextSmooth]_vars

(* ---- one stroke list through every stroke operation ---- *)

\* the host holds one stroke list and hands it to cull_strokes_by_viewport,
\* detect_eraser_collision and compact_strokes, and one of its strokes to
\* calculate_stroke_bounds; the calls run in any order
InitStrokeList ==
    \E sts \in SharedLists :
        /\ viewport = SharedViewport
        /\ strokes = sts
        /\ visible = <<>>
        /\ vphase = "input"
        /\ eraserRequest = EraserCollisionRequest(sts, SharedEraser, 2)
        /\ hits = EraserCollisionResponse(<<>>, <<>>)
        /\ ephase = "input"
        /\ stroke \in { sts[k] : k \in 1..Len(sts) } \cup { Stroke("draw", <<>>) }
        /\ bounds = Bounds(0, 0, 0, 0)
        /\ bphase = "input"
        /\ compactRequest = CompactStrokesRequest(None, AsTauriStrokes(sts),
                                                  MaxCanvasW, MaxCanvasH)
        /\ canvas = InitialCanvas(compactRequest)
        /\ previous = InitialCanvas(compactRequest)
        /\ writes = {}
        /\ applied = 0
        /\ kphase = "strokes"
        /\ IdleSimplify /\ IdleQuantize /\ IdleCollect /\ IdleCollision /\ IdleBatch /\ IdleSmooth /\ IdleStack /\ IdleLine

NextStrokeList == NextCull \/ NextEraser \/ NextBounds \/ NextCompact

SpecStrokeList == InitStrokeList /\ [][NextStrokeList]_vars

----------------------------------------------------------------------------
(* Claims about the simplifier *)

SimplifyDone == sphase \in {"once", "twice"}
First(s) == s[1]
Last(s) == s[Len(s)]
Range(s) == { s[k] : k \in 1..Len(s) }

\* C2: for every non-empty input and every epsilon >= 0 the first element of
\* the output is the input's first point and the last element of the output
\* is the input's last point.
C2_EndpointsRetained ==
    (SimplifyDone /\ points # <<>>) =>
        /\ simplified # <<>>
        /\ First(simplified) = First(points)
        /\ Last(simplified) = Last(points)

\* C3: simplify is idempotent: simplifying the output again with the same
\* epsilon returns the output element for element.
C3_Idempotent ==
    sphase = "twice" => resimplified = simplified

\* C4: the output is a subsequence of the input in the original order: the
\* emitted input indices are strictly increasing, the output is the input
\* read at those indices, and the output is no longer than the input.
C4_Subsequence ==
    SimplifyDone =>
        /\ \A k \in 1..Len(kept) : kept[k] \in 0..(Len(points) - 1)
        /\ \A k \in 1..(Len(kept) - 1) : kept[k] < kept[k + 1]
        /\ Len(simplified) = Len(kept)
        /\ \A k \in 1..Len(kept) : simplified[k] = At(points, kept[k])
        /\ Len(simplified) <= Len(points)

\* a split happened (three or more points survive) and a point was dropped
C4_Witness ==
    /\ sphase = "once"
    /\ Len(points) = MaxLen
    /\ Len(kept) >= 3
    /\ Len(kept) < Len(points)

\* the input indices absent from the output
Dropped == { i \in 0..(Len(points) - 1) : i \notin Range(kept) }
\* the nearest retained indices before and after i
RetainedBefore(i) == { j \in Range(kept) : j < i }
RetainedAfter(i) == { j \in Range(kept) : j > i }
SetMax(S) == CHOOSE x \in S : \A y \in S : y <= x
SetMin(S) == CHOOSE x \in S : \A y \in S : x <= y

\* C5: (all ranges scanned with stride 1) each input point absent from the
\* output has its from-corner within epsilon of the chord from the
\* from-corner of the nearest retained point before it to the to-corner of
\* the nearest retained point after it (stated for the dropped points that
\* have a retained point on both sides).
C5_DroppedWithinEpsilon ==
    (SimplifyDone /\ Len(points) <= StrideThreshold) =>
        \A i \in Dropped :
            (RetainedBefore(i) # {} /\ RetainedAfter(i) # {}) =>
                ~ExceedsEpsilon(Deviation(points, SetMax(RetainedBefore(i)),
                                          SetMin(RetainedAfter(i)), i), epsilon)

\* p lies on the closed segment from a to b (points as <<x, y>>)
OnChord(p, a, b) ==
    /\ (b[1] - a[1]) * (p[2] - a[2]) - (b[2] - a[2]) * (p[1] - a[1]) = 0
    /\ Min2(a[1], b[1]) <= p[1] /\ p[1] <= Max2(a[1], b[1])
    /\ Min2(a[2], b[2]) <= p[2] /\ p[2] <= Max2(a[2], b[2])

\* three or more segments whose from-corners all lie on the chord from the
\* first segment's from-corner to the last segment's to-corner
CollinearChain(pts) ==
    /\ Len(pts) >= 3
    /\ \A k \in 1..Len(pts) :
          OnChord(<<pts[k].from_x, pts[k].from_y>>,
                  <<First(pts).from_x, First(pts).from_y>>,
                  <<Last(pts).to_x, Last(pts).to_y>>)

----------------------------------------------------------------------------
(* Claims about collect_points *)

\* C1: over calls in which the host passes each returned cursor into the
\* next call and the clock never runs backwards (from the initial cursor's
\* lastTime on), any two consecutive commits are at least 30 time units
\* apart and the first commit is at least 30 units after the initial
\* cursor's lastTime.
C1_Throttle ==
    monotone =>
        /\ \A k \in 1..(Len(commitLog) - 1) :
              commitLog[k + 1] - commitLog[k] >= MinInterval
        /\ commitLog # <<>> => commitLog[1] - startTime >= MinInterval

\* two commits, each exactly 30 units after the one before
C1_Witness ==
    /\ monotone
    /\ cstatus = "ok"
    /\ Len(commitLog) = 2
    /\ commitLog[1] - startTime = MinInterval
    /\ commitLog[2] - commitLog[1] = MinInterval
    /\ lastTime = commitLog[2]

----------------------------------------------------------------------------
(* Claims about quantize_coord *)

\* C7: for every coordinate and every step > 0 the result is an integer
\* multiple of step and differs from the coordinate by at most step/2; a
\* coordinate exactly half a step from two multiples goes to the one
\* further from zero.
C7_Quantize ==
    qphase = "done" =>
        /\ quantized % qstep = 0
        /\ 2 * Abs(quantized - coord) <= qstep
        /\ 2 * Abs(quantized - coord) = qstep => Abs(quantized) > Abs(coord)

\* quantize(1.4, 0.25) = 1.5, in units of 0.05
C7_Witness ==
    /\ qphase = "done"
    /\ coord = 28
    /\ qstep = 5
    /\ quantized = 30

----------------------------------------------------------------------------
(* Claims about calculate_stroke_bounds *)

\* the x and y coordinates of the segment endpoints of a stroke
EndpointXs(st) ==
    { st.points[k].from_x : k \in 1..Len(st.points) }
        \cup { st.points[k].to_x : k \in 1..Len(st.points) }
EndpointYs(st) ==
    { st.points[k].from_y : k \in 1..Len(st.points) }
        \cup { st.points[k].to_y : k \in 1..Len(st.points) }

\* C8: for a stroke with at least one segment every segment endpoint lies
\* in the returned box, and each of the four bounds is attained by some
\* endpoint.
C8_BoundsTight ==
    (bphase = "done" /\ stroke.points # <<>>) =>
        /\ \A x \in EndpointXs(stroke) : bounds.min_x <= x /\ x <= bounds.max_x
        /\ \A y \in EndpointYs(stroke) : bounds.min_y <= y /\ y <= bounds.max_y
        /\ bounds.min_x \in EndpointXs(stroke)
        /\ bounds.max_x \in EndpointXs(stroke)
        /\ bounds.min_y \in EndpointYs(stroke)
        /\ bounds.max_y \in EndpointYs(stroke)

\* a two-segment stroke whose extremes are all set by to-corners
C8_Witness ==
    /\ bphase = "done"
    /\ Len(stroke.points) = 2
    /\ \A k \in 1..2 :
          /\ bounds.min_x < stroke.points[k].from_x
          /\ stroke.points[k].from_y < bounds.max_y
    /\ bounds.min_x < bounds.max_x
    /\ bounds.min_y < bounds.max_y

----------------------------------------------------------------------------
(* Claims about cull_strokes_by_viewport *)

\* exact plane geometry on integer points <<x, y>>
Sign(v) == IF v > 0 THEN 1 ELSE IF v < 0 THEN -1 ELSE 0
Orient(a, b, c) == Sign((b[1] - a[1]) * (c[2] - a[2]) - (b[2] - a[2]) * (c[1] - a[1]))
InBox(a, b, c) ==
    /\ Min2(a[1], b[1]) <= c[1] /\ c[1] <= Max2(a[1], b[1])
    /\ Min2(a[2], b[2]) <= c[2] /\ c[2] <= Max2(a[2], b[2])

\* the closed segments p1-q1 and p2-q2 have a common point
SegmentsMeet(p1, q1, p2, q2) ==
    LET o1 == Orient(p1, q1, p2)
        o2 == Orient(p1, q1, q2)
        o3 == Orient(p2, q2, p1)
        o4 == Orient(p2, q2, q1)
    IN  \/ (o1 # o2 /\ o3 # o4)
        \/ (o1 = 0 /\ InBox(p1, q1, p2))
        \/ (o2 = 0 /\ InBox(p1, q1, q2))
        \/ (o3 = 0 /\ InBox(p2, q2, p1))
        \/ (o4 = 0 /\ InBox(p2, q2, q1))

\* the point lies in the closed viewport rectangle
InViewport(pt, vp) ==
    /\ vp.x <= pt[1] /\ pt[1] <= vp.x + vp.width
    /\ vp.y <= pt[2] /\ pt[2] <= vp.y + vp.height

\* the closed segment has a point in the closed viewport rectangle: an
\* endpoint lies in it, or the segment meets one of its four sides
SegmentMeetsViewport(seg, vp) ==
    LET p == <<seg.from_x, seg.from_y>>
        q == <<seg.to_x, seg.to_y>>
        tl == <<vp.x, vp.y>>
        tr == <<vp.x + vp.width, vp.y>>
        bl == <<vp.x, vp.y + vp.height>>
        br == <<vp.x + vp.width, vp.y + vp.height>>
    IN  \/ InViewport(p, vp)
        \/ InViewport(q, vp)
        \/ SegmentsMeet(p, q, tl, tr)
        \/ SegmentsMeet(p, q, tr, br)
        \/ SegmentsMeet(p, q, br, bl)
        \/ SegmentsMeet(p, q, bl, tl)

HasEndpointInViewport(st, vp) ==
    \E k \in 1..Len(st.points) :
        \/ InViewport(<<st.points[k].from_x, st.points[k].from_y>>, vp)
        \/ InViewport(<<st.points[k].to_x, st.points[k].to_y>>, vp)

MeetsViewport(st, vp) ==
    \E k \in 1..Len(st.points) : SegmentMeetsViewport(st.points[k], vp)

IsReturned(st) == \E k \in 1..Len(visible) : visible[k] = st

\* C9: every stroke with a segment endpoint inside the viewport rectangle
\* is kept, whatever the direction of the segment; more generally every
\* stroke with a segment that meets the viewport rectangle is kept.
C9_VisibleKept ==
    vphase = "done" =>
        \A k \in 1..Len(strokes) :
            /\ HasEndpointInViewport(strokes[k], viewport) => IsReturned(strokes[k])
            /\ MeetsViewport(strokes[k], viewport) => IsReturned(strokes[k])

\* C10: every stroke none of whose segments shares a point with the
\* viewport rectangle is excluded, also when a segment passes the four axis
\* tests and runs outside a corner.
C10_OutsideExcluded ==
    vphase = "done" =>
        \A k \in 1..Len(strokes) :
            ~MeetsViewport(strokes[k], viewport) => ~IsReturned(strokes[k])

\* a list of one returned stroke and one excluded stroke that has a segment
\* passing the axis tests outside a corner of the viewport
C10_Witness ==
    /\ vphase = "done"
    /\ Len(strokes) = 2
    /\ Len(visible) = 1
    /\ \E k \in 1..2 :
          /\ ~IsReturned(strokes[k])
          /\ ~MeetsViewport(strokes[k], viewport)
          /\ \E j \in 1..Len(strokes[k].points) :
                LET seg == strokes[k].points[j]
                IN  ~AxisRejected(seg.from_x, seg.from_y, seg.to_x, seg.to_y,
                                  viewport.x, viewport.y,
                                  viewport.x + viewport.width,
                                  viewport.y + viewport.height)

----------------------------------------------------------------------------
(* Claims about complex_collision_detection *)

\* the request is a pair of circles, each with numeric x, y and radius
IsCircle(v) ==
    /\ v.kind = "object"
    /\ DOMAIN v.fields = {"x", "y", "radius"}
    /\ \A key \in DOMAIN v.fields : v.fields[key].kind = "number"
CirclePair ==
    /\ shapes.parsed
    /\ shapes.shape1_type = "circle" /\ shapes.shape2_type = "circle"
    /\ IsCircle(shapes.shape1_data) /\ IsCircle(shapes.shape2_data)
Radius1 == shapes.shape1_data.fields.radius.num
Radius2 == shapes.shape2_data.fields.radius.num
CentreDistanceSq ==
    distanceSq(shapes.shape1_data.fields.x.num, shapes.shape1_data.fields.y.num,
               shapes.shape2_data.fields.x.num, shapes.shape2_data.fields.y.num)
\* d <= s for a distance d >= 0 given by its square and an integer s
DistanceAtMost(dSq, bound) == bound >= 0 /\ dSq <= bound * bound

\* C11: for two circles with non-negative radii the result is true if and
\* only if the distance between the centres is at most r1 + r2, equality
\* included.
C11_CircleCircle ==
    (xphase = "done" /\ CirclePair /\ Radius1 >= 0 /\ Radius2 >= 0) =>
        (collides <=> DistanceAtMost(CentreDistanceSq, Radius1 + Radius2))

\* two circles of positive radius that touch in exactly one point
C11_Witness ==
    /\ xphase = "done"
    /\ CirclePair
    /\ Radius1 > 0 /\ Radius2 > 0
    /\ CentreDistanceSq = (Radius1 + Radius2) * (Radius1 + Radius2)
    /\ collides

\* the pairs of tags the dispatch handles
SupportedPairs ==
    { <<"rect", "rect">>, <<"rect", "circle">>, <<"circle", "rect">>,
      <<"circle", "circle">>, <<"line", "line">> }

\* C12: for every pair of tags other than rect-rect, rect-circle,
\* circle-rect, circle-circle and line-line the result is false, whatever
\* the payloads contain.
C12_UnsupportedPairFalse ==
    (xphase = "done" /\ shapes.parsed
     /\ <<shapes.shape1_type, shapes.shape2_type>> \notin SupportedPairs) =>
        collides = FALSE

\* a rect-line request whose payloads overlap when both are read as
\* rectangles or as shapes at the origin
C12_Witness ==
    /\ xphase = "done"
    /\ shapes.parsed
    /\ shapes.shape1_type = "rect" /\ shapes.shape2_type = "line"
    /\ shapes.shape1_data.kind = "object" /\ shapes.shape2_data.kind = "object"
    /\ "width" \in DOMAIN shapes.shape1_data.fields
    /\ "x1" \in DOMAIN shapes.shape2_data.fields
    /\ collides = FALSE

----------------------------------------------------------------------------
(* Claims about detect_eraser_collision *)

\* segment j of stroke i (both 0-based) is listed in the response
ReportedHit(i, j) ==
    \E k \in 1..Len(hits.hit_stroke_indices) :
        /\ hits.hit_stroke_indices[k] = i
        /\ k <= Len(hits.hit_point_indices)
        /\ j \in Range(hits.hit_point_indices[k])
\* stroke i is in the hit-stroke list
ReportedStroke(i) == i \in Range(hits.hit_stroke_indices)

\* the three proximity conditions of the hit test between a stroke segment
\* and an eraser segment
CornersNear(seg, e, tol) ==
    \/ DistanceAtMost(distanceSq(seg.from_x, seg.from_y, e.from_x, e.from_y), tol)
    \/ DistanceAtMost(distanceSq(seg.to_x, seg.to_y, e.to_x, e.to_y), tol)
EraserStartNearSegment(seg, e, tol) ==
    tol >= 0 /\ FracLE(perpendicular_distance(e.from_x, e.from_y, seg.from_x,
                                              seg.from_y, seg.to_x, seg.to_y),
                       Frac(tol * tol, 1))
ShouldHit(i, j) ==
    LET st == At(eraserRequest.strokes, i)
        seg == At(st.points, j)
        eps == eraserRequest.eraser_stroke.points
    IN  /\ st.type # "erase"
        /\ \E k \in 1..Len(eps) :
              \/ CornersNear(seg, eps[k], eraserRequest.tolerance)
              \/ EraserStartNearSegment(seg, eps[k], eraserRequest.tolerance)

\* C13: segment j of stroke i is reported as hit if and only if stroke i is
\* not an erase stroke and some eraser segment has its from-corner within
\* tolerance of the segment's from-corner, or its to-corner within tolerance
\* of the segment's to-corner, or its from-corner within tolerance of the
\* segment itself; stroke i is in the hit-stroke list if and only if one of
\* its segments is hit.
C13_EraserHits ==
    ephase = "done" =>
        /\ Len(hits.hit_point_indices) = Len(hits.hit_stroke_indices)
        /\ \A i \in 0..(Len(eraserRequest.strokes) - 1) :
              /\ \A j \in 0..(Len(At(eraserRequest.strokes, i).points) - 1) :
                    ReportedHit(i, j) <=> ShouldHit(i, j)
              /\ ReportedStroke(i) <=>
                    \E j \in 0..(Len(At(eraserRequest.strokes, i).points) - 1) :
                        ShouldHit(i, j)

\* a two-stroke list whose second stroke is reported for its second segment
\* alone, hit through the distance of the eraser's start to the segment and
\* not through its corners
C13_Witness ==
    /\ ephase = "done"
    /\ Len(eraserRequest.strokes) = 2
    /\ hits.hit_stroke_indices = <<1>>
    /\ hits.hit_point_indices = << <<1>> >>
    /\ \A k \in 1..Len(eraserRequest.eraser_stroke.points) :
          ~CornersNear(At(At(eraserRequest.strokes, 1).points, 1),
                       eraserRequest.eraser_stroke.points[k],
                       eraserRequest.tolerance)

----------------------------------------------------------------------------
(* Claims about batch_process_draw_commands *)

\* the style triple of a command
Style(c) == <<c.type, c.color, c.line_width>>

\* C14: in the output all commands of one style triple (kind, color,
\* lineWidth) are contiguous: no command of another style lies between two
\* commands of the same style, also for kinds and colors that contain the
\* underscore of the grouping key.
C14_SameStyleContiguous ==
    dphase = "done" =>
        \A a, b, c \in 1..Len(optimized) :
            (a < b /\ b < c /\ Style(optimized[a]) = Style(optimized[c])) =>
                Style(optimized[b]) = Style(optimized[a])

\* how often a command occurs in a sequence
Occurrences(seq, c) == Cardinality({ k \in 1..Len(seq) : seq[k] = c })
\* the commands of one style, in sequence order
OfStyle(seq, st) == SelectSeq(seq, LAMBDA c : Style(c) = st)
\* the input commands whose length is at least minDistance, in input order
LengthAtLeast(c, m) ==
    m <= 0 \/ distanceSq(c.from_x, c.from_y, c.to_x, c.to_y) >= m * m
Survivors ==
    SelectSeq(batchRequest.commands,
              LAMBDA c : LengthAtLeast(c, batchRequest.min_distance))

\* C15: the output holds exactly the input commands whose length is at
\* least minDistance, each as often as the input holds it and unmodified,
\* and the commands of one style keep their relative input order.
C15_ExactlySurvivors ==
    dphase = "done" =>
        /\ Len(optimized) = Len(Survivors)
        /\ \A c \in Range(Survivors) \cup Range(optimized) :
              Occurrences(optimized, c) = Occurrences(Survivors, c)
        /\ \A c \in Range(optimized) :
              OfStyle(optimized, Style(c)) = OfStyle(Survivors, Style(c))

\* three commands of two styles survive, one of length exactly minDistance,
\* one command is dropped, and the later group of the input comes first
C15_Witness ==
    /\ dphase = "done"
    /\ Len(batchRequest.commands) = 3
    /\ batchRequest.min_distance = 2
    /\ Len(optimized) = 2
    /\ Style(optimized[1]) # Style(optimized[2])
    /\ optimized[1] = batchRequest.commands[3]

----------------------------------------------------------------------------
(* Claims about compact_strokes *)

\* the stroke the loop applied last
LastApplied == compactRequest.strokes[applied]
\* a stroke that stamps: a draw or erase stroke with at least one segment
Stamps(st) == st.points # <<>> /\ st.stroke_type \in {"draw", "erase"}
\* truncation of a half-pixel coordinate to its pixel
PixelOf(v) == IF v >= 0 THEN v \div 2 ELSE -((-v) \div 2)
\* the pixels the digital line of some segment of the stroke visits
VisitedPixels(st) ==
    UNION { Range(LineWalk(PixelOf(st.points[k].from_x), PixelOf(st.points[k].from_y),
                           PixelOf(st.points[k].to_x), PixelOf(st.points[k].to_y))) :
              k \in 1..Len(st.points) }
\* the brush radius: half the stroke's size, rounded down
Radius(st) ==
    (IF st.stroke_type = "draw"
     THEN (IF st.line_width.some THEN st.line_width.value ELSE 2)
     ELSE (IF st.eraser_size.some THEN st.eraser_size.value ELSE 15)) \div 2
\* the canvas pixels within the brush radius of a visited pixel
WithinRadius(p, visited, r) ==
    \E v \in visited :
        (p[1] - v[1]) * (p[1] - v[1]) + (p[2] - v[2]) * (p[2] - v[2]) <= r * r
StampedPixels(st) ==
    IF Stamps(st)
    THEN LET visited == VisitedPixels(st)
         IN  { p \in DOMAIN canvas : WithinRadius(p, visited, Radius(st)) }
    ELSE {}
RGB(pixel) == << pixel[1], pixel[2], pixel[3] >>
Alpha(pixel) == pixel[4]

\* C16: applying an erase stroke sets alpha to 0 on exactly the canvas
\* pixels inside its stamped discs and leaves every other pixel's four
\* channels unchanged; the R, G, B of every pixel are the same after the
\* erase as before it.
C16_EraseAlphaOnly ==
    (kphase \in {"strokes", "encoded"} /\ applied >= 1
     /\ LastApplied.stroke_type = "erase") =>
        LET stamped == StampedPixels(LastApplied)
        IN  \A p \in DOMAIN canvas :
                /\ RGB(canvas[p]) = RGB(previous[p])
                /\ p \in stamped => Alpha(canvas[p]) = 0
                /\ p \notin stamped => canvas[p] = previous[p]

\* an erase stroke has turned a coloured, visible pixel transparent and has
\* left another visible pixel as it was
C16_Witness ==
    /\ kphase = "strokes"
    /\ applied >= 1
    /\ LastApplied.stroke_type = "erase"
    /\ \E p \in DOMAIN canvas :
          /\ Alpha(previous[p]) > 0 /\ Alpha(canvas[p]) = 0
          /\ RGB(canvas[p]) # <<0, 0, 0>>
    /\ \E p \in DOMAIN canvas : Alpha(canvas[p]) > 0

\* the colour a draw stroke's colour string denotes, with the default
\* #3498db for a stroke without one
StrokeColour(st) ==
    IF ~st.color.some THEN <<52, 152, 219>>
    ELSE IF st.color.value = Red THEN <<255, 0, 0>>
    ELSE <<0, 0, 255>>
Opaque(rgb) == << rgb[1], rgb[2], rgb[3], 255 >>

\* one draw stroke with a colour, over a transparent canvas without base image
SingleDraw ==
    /\ ~compactRequest.base_image.some
    /\ Len(compactRequest.strokes) = 1
    /\ compactRequest.strokes[1].stroke_type = "draw"
    /\ compactRequest.strokes[1].points # <<>>
    /\ compactRequest.strokes[1].color.some

\* C17: a single opaque draw stroke of colour C and width w over a
\* transparent canvas yields (C, 255) on exactly the canvas pixels within
\* distance floor(w/2) of a pixel of the integer line walk of one of its
\* segments, and (0,0,0,0) on every other pixel.
C17_SingleDraw ==
    (kphase \in {"strokes", "encoded"} /\ applied = 1 /\ SingleDraw) =>
        LET stamped == StampedPixels(compactRequest.strokes[1])
        IN  \A p \in DOMAIN canvas :
                canvas[p] = IF p \in stamped
                            THEN Opaque(StrokeColour(compactRequest.strokes[1]))
                            ELSE <<0, 0, 0, 0>>

\* red, width 4: red pixels on the path and transparent ones elsewhere
C17_Witness ==
    /\ kphase = "encoded"
    /\ SingleDraw
    /\ compactRequest.strokes[1].color = Some(Red)
    /\ compactRequest.strokes[1].line_width = Some(4)
    /\ \E p \in DOMAIN canvas : canvas[p] = <<255, 0, 0, 255>>
    /\ \E p \in DOMAIN canvas : canvas[p] = <<0, 0, 0, 0>>

\* the value of a pixel before the first stroke: the base image's where it
\* decodes and covers the pixel, transparent otherwise
BasePixel(p) ==
    LET b == compactRequest.base_image
    IN  IF b.some /\ b.value.decodes /\ p[1] < b.value.width /\ p[2] < b.value.height
        THEN b.value.pixels[p]
        ELSE <<0, 0, 0, 0>>
\* the pixels each stroke of the request stamps
StampedBy == [k \in 1..Len(compactRequest.strokes) |->
                StampedPixels(compactRequest.strokes[k])]
\* the strokes among the first n that stamp p, and those of them that draw,
\* given the pixels each stroke stamps
Stampers(p, n, stampedBy) == { k \in 1..n : p \in stampedBy[k] }
Drawers(p, n, stampedBy) ==
    { k \in Stampers(p, n, stampedBy) : compactRequest.strokes[k].stroke_type = "draw" }

\* C18: strokes are applied in list order: each pixel has the value given by
\* the last stroke that stamps it, the stroke's colour with alpha 255 for a
\* draw and alpha 0 over the RGB left by earlier strokes or the base image
\* for an erase; a pixel no stroke stamps keeps its base value.
C18_LastStrokeWins ==
    kphase \in {"strokes", "encoded"} =>
        LET by == StampedBy
        IN  \A p \in DOMAIN canvas :
                IF Stampers(p, applied, by) = {}
                THEN canvas[p] = BasePixel(p)
                ELSE LET last == compactRequest.strokes[SetMax(Stampers(p, applied, by))]
                     IN  IF last.stroke_type = "draw"
                         THEN canvas[p] = Opaque(StrokeColour(last))
                         ELSE /\ Alpha(canvas[p]) = 0
                              /\ RGB(canvas[p]) =
                                    IF Drawers(p, applied, by) = {}
                                    THEN RGB(BasePixel(p))
                                    ELSE StrokeColour(compactRequest.strokes[
                                             SetMax(Drawers(p, applied, by))])

\* two strokes share a pixel: where the later one draws in another colour
\* its colour shows, or where it erases the earlier colour stays under alpha 0
C18_Witness ==
    /\ kphase = "encoded"
    /\ applied = 2
    /\ \E p \in DOMAIN canvas :
          /\ Stampers(p, 2, StampedBy) = {1, 2}
          /\ compactRequest.strokes[1].stroke_type = "draw"
          /\ \/ /\ compactRequest.strokes[2].stroke_type = "erase"
                /\ canvas[p] = <<255, 0, 0, 0>>
             \/ /\ compactRequest.strokes[2].stroke_type = "draw"
                /\ StrokeColour(compactRequest.strokes[2])
                      # StrokeColour(compactRequest.strokes[1])
                /\ canvas[p] = Opaque(StrokeColour(compactRequest.strokes[2]))

\* C19: every pixel write of a stroke targets a coordinate inside the
\* canvas; stamp positions outside it are skipped without an error, and the
\* in-range pixels of the same segments are still written.
C19_WritesInCanvas ==
    /\ kphase # "panic"
    /\ (kphase \in {"strokes", "encoded"} /\ applied >= 1) =>
          /\ \A t \in writes :
                /\ 0 <= t[1] /\ t[1] < compactRequest.canvas_width
                /\ 0 <= t[2] /\ t[2] < compactRequest.canvas_height
          /\ StampedPixels(LastApplied) \subseteq writes

\* a segment that starts left of the canvas and ends right of it has
\* written pixels inside
C19_Witness ==
    /\ kphase = "strokes"
    /\ applied >= 1
    /\ Len(LastApplied.points) = 1
    /\ PixelOf(LastApplied.points[1].from_x) < 0
    /\ PixelOf(LastApplied.points[1].to_x) >= compactRequest.canvas_width
    /\ writes # {}

----------------------------------------------------------------------------
(* Claims about strokes without points *)

HasPoints(st) == st.points # <<>>
\* the compositor's request without its strokes that have no points
WithoutEmptyStrokes ==
    [compactRequest EXCEPT !.strokes = SelectSeq(@, HasPoints)]

\* C20: a stroke whose point sequence is empty contributes nothing:
\* compact_strokes produces the raster it produces without the stroke,
\* cull_strokes_by_viewport never returns it, detect_eraser_collision never
\* lists it as hit, and calculate_stroke_bounds returns the zero box for it.
C20_EmptyStrokeInert ==
    /\ kphase = "encoded" => canvas = compact_strokes(WithoutEmptyStrokes)
    /\ vphase = "done" => \A k \in 1..Len(visible) : HasPoints(visible[k])
    /\ ephase = "done" =>
          \A k \in 1..Len(hits.hit_stroke_indices) :
              HasPoints(At(eraserRequest.strokes, hits.hit_stroke_indices[k]))
    /\ (bphase = "done" /\ ~HasPoints(stroke)) => bounds = Bounds(0, 0, 0, 0)

\* all four operations have answered for a list with a stroke without points
\* between two strokes with points; the other strokes were drawn, returned
\* and hit
C20_Witness ==
    /\ kphase = "encoded" /\ vphase = "done" /\ ephase = "done" /\ bphase = "done"
    /\ Len(strokes) = 3
    /\ HasPoints(strokes[1]) /\ ~HasPoints(strokes[2]) /\ HasPoints(strokes[3])
    /\ ~HasPoints(stroke)
    /\ visible # <<>>
    /\ hits.hit_stroke_indices # <<>>
    /\ \E p \in DOMAIN canvas : canvas[p] # <<0, 0, 0, 0>>

----------------------------------------------------------------------------
(* Claims about malformed payloads *)

\* the values complex_collision_detection returns for a request that parses
OrdinaryAnswers == BOOLEAN

\* C21: a payload that fails validation gets a result the caller can tell
\* from a successful one: a collision request that does not parse is not
\* answered with an ordinary answer such as "no collision".
C21_MalformedReported ==
    (xphase = "done" /\ ~shapes.parsed) => collides \notin OrdinaryAnswers

\* the compositor's side of the same statement: with a base image that does
\* not decode, the raster is not the one of the request without a base image
C21_UndecodableBaseReported ==
    (kphase = "encoded" /\ compactRequest.base_image = Some(Undecodable)) =>
        canvas # compact_strokes([compactRequest EXCEPT !.base_image = None])

----------------------------------------------------------------------------
(* Claims about the throttle cursor *)

Cursor == <<lastTime, lastX, lastY>>

\* C22: the cursor changes only on acceptance: a call that rejects every
\* sample returns the cursor it was passed and an empty committed list; a
\* call that accepts a sample returns lastTime = currentTime and (lastX,
\* lastY) = the to-corner of the last element of the committed list.
C22_CursorOnAcceptance ==
    [][cstatus' = "ok" =>
          /\ collected' = <<>> => Cursor' = Cursor
          /\ collected' # <<>> =>
                /\ lastTime' = clock'
                /\ lastX' = Last(collected').to_x
                /\ lastY' = Last(collected').to_y]_vars

\* a call has committed the long sample, whose two corners differ, and the
\* cursor sits on its to-corner
C22_Witness ==
    /\ cstatus = "ok"
    /\ collected # <<>>
    /\ Last(collected).from_x # Last(collected).to_x
    /\ Last(collected).from_y # Last(collected).to_y
    /\ Cursor = <<clock, Last(collected).to_x, Last(collected).to_y>>

\* the request of the examined call, and whether a sample passes the
\* distance filter under every config
PassesEveryFilter(pt) ==
    \A config \in Configs :
        distanceSq(quantize_coord(pt.from_x, config.quantization),
                   quantize_coord(pt.from_y, config.quantization),
                   quantize_coord(pt.to_x, config.quantization),
                   quantize_coord(pt.to_y, config.quantization))
            >= config.min_distance * config.min_distance

\* C23: there are inputs for which one call commits more samples than the
\* eager threshold, so that the eager simplification executes.  The buffer
\* grows by one per commit, so such an input has a prefix for which the call
\* commits two samples: stated for the cursor held, over every request.
C23_EagerStepExecutes ==
    \E pts \in SeqsUpTo(RawSamples, MaxSamples), config \in Configs, now \in Times :
        LET r == collect_points([points |-> pts, config |-> config,
                                 last_time |-> lastTime, last_x |-> lastX,
                                 last_y |-> lastY, current_time |-> now],
                                overflowChecks)
        IN  ~r.panicked /\ Len(r.collected) >= 2

\* C28: one call commits at most one sample, however many it receives.
C28_OneCommitPerCall ==
    cstatus = "ok" => Len(collected) <= 1

\* a call that received two samples passing the distance filter, at least
\* the interval after the cursor's lastTime, committed the first one only
C28_Witness ==
    /\ cstatus = "ok"
    /\ Len(samples) = 2
    /\ PassesEveryFilter(samples[1]) /\ PassesEveryFilter(samples[2])
    /\ clock >= startTime + MinInterval
    /\ Len(collected) = 1
    /\ lastTime = clock

\* C29: a sample is committed only if currentTime >= lastTime + 30 in
\* unbounded integers; a call with currentTime below the cursor's lastTime
\* commits nothing and does not move lastTime backwards.
C29_NoCommitOnRegression ==
    /\ (cstatus = "ok" /\ collected # <<>>) => clock >= startTime + MinInterval
    /\ (cstatus \in {"ok", "panic"} /\ clock < startTime) =>
          collected = <<>> /\ lastTime = startTime

----------------------------------------------------------------------------
(* Claims about smooth_path *)

FracEq(p, q) == p.num * q.den = q.num * p.den
Coordinates == { "from_x", "from_y", "to_x", "to_y" }
SmoothInput == smoothRequest.points
\* the value v of an input coordinate, as the output carries it
Same(out, v) == FracEq(out, Frac(v, 1))
SamePoint(out, pt) == \A c \in Coordinates : Same(out[c], pt[c])

RECURSIVE SumOver(_, _, _)
SumOver(pts, c, I) ==
    IF I = {} THEN 0
    ELSE LET i == CHOOSE j \in I : TRUE
         IN  At(pts, i)[c] + SumOver(pts, c, I \ {i})

\* W = round(3 + smoothness * 7) and h = W div 2
StatedHalfWindow == RoundHalfAway(3 * SmoothUnit + smoothRequest.smoothness * 7, SmoothUnit) \div 2

\* C24: moving_average on n >= 2 points returns n points; with
\* W = round(3 + smoothness * 7) and h = W div 2, each coordinate of output
\* point i is the mean of that coordinate over the input indices
\* max(0, i - h) .. min(n - 1, i + h).
C24_MovingAverage ==
    (mphase = "done" /\ smoothRequest.algorithm = "moving_average"
     /\ Len(SmoothInput) >= 2) =>
        /\ Len(smoothed) = Len(SmoothInput)
        /\ \A i \in 0..(Len(SmoothInput) - 1), c \in Coordinates :
              LET window == Max2(0, i - StatedHalfWindow)
                            ..Min2(Len(SmoothInput) - 1, i + StatedHalfWindow)
              IN  At(smoothed, i)[c].num * Cardinality(window)
                     = SumOver(SmoothInput, c, window) * At(smoothed, i)[c].den

\* C25: any other algorithm returns as many points as it was given, the
\* first and last as given, and interior point i with from-corner
\* from_i + (to_(i-1) - from_i) * smoothness * 0.5 and to-corner
\* to_i + (from_(i+1) - to_i) * smoothness * 0.5; fewer than 2 points are
\* returned unchanged by both algorithms.
C25_CornerRounding ==
    mphase = "done" =>
        /\ Len(SmoothInput) < 2 =>
              /\ Len(smoothed) = Len(SmoothInput)
              /\ \A k \in 1..Len(smoothed) : SamePoint(smoothed[k], SmoothInput[k])
        /\ (Len(SmoothInput) >= 2 /\ smoothRequest.algorithm # "moving_average") =>
              /\ Len(smoothed) = Len(SmoothInput)
              /\ SamePoint(First(smoothed), First(SmoothInput))
              /\ SamePoint(Last(smoothed), Last(SmoothInput))
              /\ \A i \in 1..(Len(SmoothInput) - 2) :
                    LET out == At(smoothed, i)
                        prev == At(SmoothInput, i - 1)
                        curr == At(SmoothInput, i)
                        next == At(SmoothInput, i + 1)
                        weight == smoothRequest.smoothness
                        whole == 2 * SmoothUnit
                    IN  /\ out.from_x.num * whole = out.from_x.den *
                              ((whole - weight) * curr.from_x + weight * prev.to_x)
                        /\ out.from_y.num * whole = out.from_y.den *
                              ((whole - weight) * curr.from_y + weight * prev.to_y)
                        /\ out.to_x.num * whole = out.to_x.den *
                              ((whole - weight) * curr.to_x + weight * next.from_x)
                        /\ out.to_y.num * whole = out.to_y.den *
                              ((whole - weight) * curr.to_y + weight * next.from_y)

\* a path of at least three different points smoothed by "bezier" with a
\* smoothness above 0: an interior point has moved
C25_Witness ==
    /\ mphase = "done"
    /\ smoothRequest.algorithm = "bezier"
    /\ smoothRequest.smoothness > 0
    /\ Len(SmoothInput) >= 3
    /\ SmoothInput[1] # SmoothInput[2] /\ SmoothInput[2] # SmoothInput[3]
    /\ ~SamePoint(smoothed[2], SmoothInput[2])
    /\ SamePoint(smoothed[1], SmoothInput[1])

----------------------------------------------------------------------------
(* Claims about the simplifier's work stack *)

Top == workStack[Len(workStack)]
Rest == SubSeq(workStack, 1, Len(workStack) - 1)
Popping == wphase = "loop" /\ workStack # <<>>

\* C26: when the range popped has at most one interior point
\* (end - start <= 2), the iteration emits only the start point of the
\* range and neither scans nor splits it.
C26_ShortRangeEmitsStart ==
    [][(Popping /\ epsilon >= 0 /\ Top[2] - Top[1] <= 2) =>
          /\ workStack' = Rest
          /\ emitted' = Append(emitted, Top[1])]_vars

\* the ranges on the stack, top first, each start where the one above it
\* ends, the bottom one ending at the last index
ContiguousChain ==
    /\ \A k \in 1..(Len(workStack) - 1) : workStack[k][1] = workStack[k + 1][2]
    /\ workStack # <<>> => workStack[1][2] = Len(points) - 1
    /\ \A k \in 1..Len(workStack) : workStack[k][1] < workStack[k][2]

Split == Popping /\ Len(workStack') = Len(workStack) + 1
SplitIndex == workStack'[Len(workStack')][2]

\* the work left: 2 * (end - start) - 1 summed over the ranges of a stack
RECURSIVE WorkLeft(_)
WorkLeft(ranges) ==
    IF ranges = <<>> THEN 0
    ELSE 2 * (ranges[1][2] - ranges[1][1]) - 1 + WorkLeft(Tail(ranges))

\* C27: for epsilon >= 0 the loop terminates: a split index is strictly
\* between start and end and the two ranges pushed are the two parts, both
\* shorter than the range popped, so every iteration lowers the work left,
\* which is never negative; the stack is a contiguous left-to-right chain
\* ending at index n - 1 and never holds more than n - 1 ranges; the run is
\* never cut off.  With epsilon < 0 a range of zero deviation is pushed
\* again unchanged.
C27_StackLoopTerminates ==
    /\ [](epsilon >= 0 =>
             /\ ContiguousChain
             /\ Len(workStack) <= Len(points) - 1
             /\ WorkLeft(workStack) >= 0
             /\ Len(emitted) + 2 * Len(workStack) <= 2 * (Len(points) - 1)
             /\ Len(emitted) + 2 * Len(workStack) <= MaxEmit)
    /\ [][(epsilon >= 0 /\ Split) =>
             /\ Top[1] < SplitIndex /\ SplitIndex < Top[2]
             /\ workStack' = Rest \o << <<SplitIndex, Top[2]>>, <<Top[1], SplitIndex>> >>]_vars
    /\ [][(epsilon >= 0 /\ Popping) => WorkLeft(workStack') < WorkLeft(workStack)]_vars
    /\ [][(epsilon < 0 /\ Popping /\ Top[1] < Top[2]
           /\ MaxDeviation(points, Top[1], Top[2]).dist.num = 0) =>
             /\ Len(workStack') = Len(workStack) + 1
             /\ workStack'[Len(workStack)] = Top]_vars

\* the stack holds n - 1 ranges of one step each, for an input of four
\* points split twice
C27_Witness ==
    /\ epsilon >= 0
    /\ wphase = "loop"
    /\ Len(points) = 4
    /\ workStack = << <<2, 3>>, <<1, 2>>, <<0, 1>> >>

----------------------------------------------------------------------------
(* Claims about the digital-line loop *)

\* C30: for integer endpoints in a bounded range the loop shared by
\* draw_line_on_canvas and erase_line_on_canvas ends after exactly
\* max(|x2 - x1|, |y2 - y1|) + 1 stamps, the first at (x1, y1) and the last
\* at (x2, y2), consecutive stamps at most one pixel apart in each axis; a
\* segment of length zero is stamped once.
C30_LineWalk ==
    lphase = "done" =>
        /\ Len(walked) = Max2(Abs(lineEnds[3] - lineEnds[1]),
                              Abs(lineEnds[4] - lineEnds[2])) + 1
        /\ First(walked) = <<lineEnds[1], lineEnds[2]>>
        /\ Last(walked) = <<lineEnds[3], lineEnds[4]>>
        /\ \A k \in 1..(Len(walked) - 1) :
              /\ Abs(walked[k + 1][1] - walked[k][1]) <= 1
              /\ Abs(walked[k + 1][2] - walked[k][2]) <= 1
        /\ (lineEnds[1] = lineEnds[3] /\ lineEnds[2] = lineEnds[4]) =>
              walked = << <<lineEnds[1], lineEnds[2]>> >>

\* a shallow line walked right to left and upward: six stamps, with steps
\* along x alone and diagonal steps
C30_Witness ==
    /\ lphase = "done"
    /\ lineEnds = <<MaxWalk, 1, MaxWalk - 5, -1>>
    /\ Len(walked) = 6
    /\ \E k \in 1..5 : walked[k + 1][2] = walked[k][2]
    /\ \E k \in 1..5 : walked[k + 1][2] # walked[k][2]

====
